---------------------------- MODULE Spec2Model ----------------------------
(***************************************************************************)
(* Model of the HTML -> program-rows extraction pipeline (extractor.py)    *)
(* and of the helpers the application module duplicates (app.py).          *)
(*                                                                         *)
(* Strings are sequences of one-character strings, so that trimming,       *)
(* case folding, substring tests and the price pattern are computed on     *)
(* the characters as the Python code computes them.  Python's None is the  *)
(* value None below; a float is carried as an integer number of cents.     *)
(***************************************************************************)
EXTENDS Integers, Sequences, FiniteSets, TLC

\* Idiom used throughout: (CHOOSE one \in {e(x) : x \in {a}} : TRUE) is e(a),
\* with a evaluated once however often e uses x.

(***************************************************************************)
(* Characters and strings                                                  *)
(***************************************************************************)
None == <<"<None>">>

UpperLetters == <<"A","B","C","D","E","F","G","H","I","J","K","L","M","N","O","P","Q","R","S","T","U","V","W","X","Y","Z">>
LowerLetters == <<"a","b","c","d","e","f","g","h","i","j","k","l","m","n","o","p","q","r","s","t","u","v","w","x","y","z">>
Digits == <<"0","1","2","3","4","5","6","7","8","9">>
Whitespace == {" ", "\t", "\n"}

IndexIn(c, alphabet) ==
    IF \E i \in 1..Len(alphabet) : alphabet[i] = c
    THEN CHOOSE i \in 1..Len(alphabet) : alphabet[i] = c
    ELSE 0

LowerCh(c) == (CHOOSE one \in {IF k > 0 THEN LowerLetters[k] ELSE c : k \in {IndexIn(c, UpperLetters)}} : TRUE)
UpperCh(c) == (CHOOSE one \in {IF k > 0 THEN UpperLetters[k] ELSE c : k \in {IndexIn(c, LowerLetters)}} : TRUE)
DigitSet == {Digits[i] : i \in 1..Len(Digits)}
IsDigit(c) == c \in DigitSet
IsLetter(c) == IndexIn(c, UpperLetters) > 0 \/ IndexIn(c, LowerLetters) > 0
DigitVal(c) == IndexIn(c, Digits) - 1

\* str.lower(), str.upper()
Lower(s) == (CHOOSE one \in {[i \in 1..Len(v) |-> LowerCh(v[i])] : v \in {s}} : TRUE)
Upper(s) == (CHOOSE one \in {[i \in 1..Len(v) |-> UpperCh(v[i])] : v \in {s}} : TRUE)

\* str.title(): a letter that follows a letter is lower-cased, any other letter upper-cased
TitleCase(s) ==
    (CHOOSE one \in {[i \in 1..Len(v) |->
              IF i > 1 /\ IsLetter(v[i-1]) THEN LowerCh(v[i]) ELSE UpperCh(v[i])] : v \in {s}} : TRUE)

\* str.strip()
Strip(s) ==
    (CHOOSE one \in {LET keep == {i \in 1..Len(v) : v[i] \notin Whitespace}
          IN  IF keep = {} THEN <<>>
              ELSE SubSeq(v, CHOOSE i \in keep : \A j \in keep : i <= j,
                             CHOOSE i \in keep : \A j \in keep : j <= i) : v \in {s}} : TRUE)

\* the elements of s at the indices idx, in order
Pick(s, idx) ==
    (CHOOSE one \in {(CHOOSE one \in {[k \in 1..Len(sel) |-> sel[k][2]] :
            sel \in {LET In(e) == e[1] \in ix
                     IN  SelectSeq([i \in 1..Len(v) |-> <<i, v[i]>>], In)}} : TRUE) :
        v \in {s}, ix \in {idx}} : TRUE)

\* re.sub(r"\s+", " ", s): every run of whitespace becomes one space
CollapseWs(s) ==
    (CHOOSE one \in {Pick([i \in 1..Len(v) |-> IF v[i] \in Whitespace THEN " " ELSE v[i]],
               {i \in 1..Len(v) :
                   v[i] \in Whitespace => i = Len(v) \/ v[i+1] \notin Whitespace}) : v \in {s}} : TRUE)

\* Python truthiness of an optional string
Truthy(x) == x \notin {None, <<>>}

\* _clean_text (extractor.py:36)
_clean_text(x) == (CHOOSE one \in {IF Truthy(v) THEN Strip(CollapseWs(v)) ELSE <<>> : v \in {x}} : TRUE)

\* `k in t` for strings
Contains(t, k) ==
    (CHOOSE one \in {\E i \in 1..(Len(a) - Len(b) + 1) : SubSeq(a, i, i + Len(b) - 1) = b :
            a \in {t}, b \in {k}} : TRUE)

ContainsAny(t, ks) == (CHOOSE one \in {\E k \in ks : Contains(a, k) : a \in {t}} : TRUE)

\* len(t.split()): the number of whitespace-separated words
WordCount(t) ==
    (CHOOSE one \in {Cardinality({i \in 1..Len(a) :
              a[i] \notin Whitespace /\ (i = 1 \/ a[i-1] \in Whitespace)}) : a \in {t}} : TRUE)

\* " ".join([a, b])
JoinSp(a, b) == a \o <<" ">> \o b

\* x or y
Or(x, y) == (CHOOSE one \in {IF Truthy(v) THEN v ELSE y : v \in {x}} : TRUE)

(***************************************************************************)
(* Currency table and normalisation                                        *)
(***************************************************************************)
USD == <<"U","S","D">>
AUD == <<"A","U","D">>
GBP == <<"G","B","P">>
EUR == <<"E","U","R">>
INR == <<"I","N","R">>

\* CURRENCY_MAP (extractor.py:10)
CURRENCY_MAP ==
    [k \in {<<"$">>, <<"U","S","$">>, USD, <<"A","$">>, <<"A","U","$">>, AUD,
            <<"<pound>">>, GBP, <<"<euro>">>, EUR, INR, <<"<rupee>">>} |->
        CASE k \in {<<"$">>, <<"U","S","$">>, USD} -> USD
          [] k \in {<<"A","$">>, <<"A","U","$">>, AUD} -> AUD
          [] k \in {<<"<pound>">>, GBP} -> GBP
          [] k \in {<<"<euro>">>, EUR} -> EUR
          [] OTHER -> INR]

CanonicalCodes == {USD, AUD, GBP, EUR, INR}

\* _norm_currency (extractor.py:55)
_norm_currency(cur) ==
    (CHOOSE one \in {IF ~Truthy(v) THEN None
          ELSE (CHOOSE one \in {IF c \in DOMAIN CURRENCY_MAP THEN CURRENCY_MAP[c]
                     ELSE IF TitleCase(c) \in DOMAIN CURRENCY_MAP
                          THEN CURRENCY_MAP[TitleCase(c)]
                     ELSE c : c \in {Upper(Strip(v))}} : TRUE) : v \in {cur}} : TRUE)

(***************************************************************************)
(* Keyword classifiers                                                     *)
(***************************************************************************)
\* EDU_WORDS (extractor.py:17)
EDU_WORDS == {<<"c","o","u","r","s","e">>, <<"c","l","a","s","s">>, <<"w","o","r","k","s","h","o","p">>, <<"t","r","a","i","n","i","n","g">>, <<"t","u","t","o","r","i","a","l">>,
              <<"w","e","b","i","n","a","r">>, <<"l","e","c","t","u","r","e">>, <<"p","r","o","g","r","a","m">>, <<"d","e","g","r","e","e">>, <<"d","i","p","l","o","m","a">>,
              <<"c","e","r","t","i","f","i","c","a","t","e">>, <<"b","o","o","t","c","a","m","p">>, <<"s","e","m","i","n","a","r">>, <<"l","e","a","r","n">>, <<"e","d","u","c","a","t","i","o","n">>,
              <<"s","t","u","d","y">>, <<"m","o","o","c">>, <<"l","e","s","s","o","n">>, <<"c","u","r","r","i","c","u","l","u","m">>, <<"m","o","d","u","l","e">>}

\* _looks_educational (extractor.py:74)
_looks_educational(text) == ContainsAny(Lower(text), EDU_WORDS)

T_Video == <<"V","i","d","e","o">>
T_Seminar == <<"S","e","m","i","n","a","r">>
T_Course == <<"C","o","u","r","s","e">>
T_Other == <<"O","t","h","e","r">>

ExtVideoWords == {<<"y","o","u","t","u","b","e",".","c","o","m">>, <<"v","i","m","e","o",".","c","o","m">>, <<"l","e","c","t","u","r","e">>, <<"v","i","d","e","o">>}
ExtSeminarWords == {<<"w","e","b","i","n","a","r">>, <<"s","e","m","i","n","a","r">>, <<"w","o","r","k","s","h","o","p">>, <<"c","o","n","f","e","r","e","n","c","e">>}
ExtCourseWords == {<<"c","o","u","r","s","e">>, <<"b","o","o","t","c","a","m","p">>, <<"m","o","o","c">>, <<"d","e","g","r","e","e">>, <<"d","i","p","l","o","m","a">>, <<"c","e","r","t","i","f","i","c","a","t","e">>}

\* _classify_type (extractor.py:78)
_classify_type(text) ==
    (CHOOSE one \in {IF ContainsAny(t, ExtVideoWords) THEN T_Video
          ELSE IF ContainsAny(t, ExtSeminarWords) THEN T_Seminar
          ELSE IF ContainsAny(t, ExtCourseWords) THEN T_Course
          ELSE T_Other : t \in {Lower(text)}} : TRUE)

AppSeminarWords == {<<"w","e","b","i","n","a","r">>, <<"s","e","m","i","n","a","r">>, <<"w","o","r","k","s","h","o","p">>}
AppVideoWords == {<<"v","i","d","e","o">>, <<"y","o","u","t","u","b","e">>, <<"l","e","c","t","u","r","e">>}
AppCourseWords == {<<"c","o","u","r","s","e">>, <<"b","o","o","t","c","a","m","p">>, <<"m","o","o","c">>}

\* classify_type (app.py:155)
classify_type(text) ==
    (CHOOSE one \in {IF ContainsAny(t, AppSeminarWords) THEN T_Seminar
          ELSE IF ContainsAny(t, AppVideoWords) THEN T_Video
          ELSE IF ContainsAny(t, AppCourseWords) THEN T_Course
          ELSE T_Other : t \in {Lower(text)}} : TRUE)

(***************************************************************************)
(* Price pattern matcher: PRICE_RE (extractor.py:23) as a backtracking     *)
(* matcher.  A match state is the position of the next character and the   *)
(* named groups captured so far; every stage returns the states it can     *)
(* reach in the order in which the regex engine tries them, and the match  *)
(* at a start position is the first state that reaches the end of the      *)
(* pattern.                                                                *)
(***************************************************************************)
\* the concatenation of a sequence of sequences
Flatten(parts) ==
    (CHOOSE one \in {
        IF Len(ps) = 0 THEN <<>>
        ELSE IF Len(ps) = 1 THEN ps[1]
        ELSE (CHOOSE one \in {[k \in 1..Len(sel) |-> ps[sel[k][1]][sel[k][2]]] :
                sel \in {LET lens == {Len(ps[i]) : i \in 1..Len(ps)}
                             w == CHOOSE n \in lens : \A n2 \in lens : n2 <= n
                             Has(x) == x[2] <= Len(ps[x[1]])
                         IN  SelectSeq([k \in 1..(Len(ps) * w) |->
                                           <<((k - 1) \div w) + 1, ((k - 1) % w) + 1>>], Has)}} : TRUE) :
        ps \in {parts}} : TRUE)

\* the states F reaches from each state of sts, in order
FlatMap(F(_), sts) ==
    IF sts = <<>> THEN <<>> ELSE Flatten([i \in 1..Len(sts) |-> F(sts[i])])

\* the currency alternatives, in the order the pattern lists them
CurrAny == <<USD, AUD, EUR, GBP, INR, <<"U","S","$">>, <<"A","U","$">>, <<"A","$">>, <<"$">>, <<"<pound>">>, <<"<euro>">>, <<"<rupee>">>>>
CurrCode == <<USD, AUD, EUR, GBP, INR>>
\* (?:to|–|-|—|and)
RangeSep == <<<<"t","o">>, <<"<endash>">>, <<"-">>, <<"<emdash>">>, <<"a","n","d">>>>

\* a literal at position p, compared case-insensitively: (?i)
LitAt(t, p, lit) ==
    /\ p + Len(lit) - 1 <= Len(t)
    /\ Lower(SubSeq(t, p, p + Len(lit) - 1)) = Lower(lit)

MatchState(p) ==
    [p |-> p, curr |-> None, amt1 |-> None, curr_range |-> None, curr2 |-> None,
     curr_solo |-> None, amt_solo |-> None, curr2_solo |-> None]

\* (?P<g>alt1|alt2|...)? : each alternative that matches, in order, then the empty match
OptGroup(t, st, g, alts) ==
    LET Hit(a) == LitAt(t, st.p, a)
    IN  (CHOOSE one \in {[k \in 1..Len(hits) |->
                            [st EXCEPT ![g] = SubSeq(t, st.p, st.p + Len(hits[k]) - 1),
                                       !.p = st.p + Len(hits[k])]] \o <<st>> :
            hits \in {SelectSeq(alts, Hit)}} : TRUE)

\* (?:alt1|alt2|...) : required, no group
Alt(t, st, alts) ==
    LET Hit(a) == LitAt(t, st.p, a)
    IN  (CHOOSE one \in {[k \in 1..Len(hits) |-> [st EXCEPT !.p = st.p + Len(hits[k])]] :
            hits \in {SelectSeq(alts, Hit)}} : TRUE)

\* the number of consecutive characters from p on that are in the class
RunLen(t, p, class) ==
    (CHOOSE one \in {IF stop = {} THEN Len(t) - p + 1
          ELSE (CHOOSE q \in stop : \A q2 \in stop : q <= q2) - p :
            stop \in {{q \in p..Len(t) : t[q] \notin class}}} : TRUE)

\* \s* (greedy): all the whitespace, then one character less at a time
Spaces(t, st) ==
    (CHOOSE one \in {[i \in 1..(n + 1) |-> [st EXCEPT !.p = st.p + n + 1 - i]] :
            n \in {RunLen(t, st.p, Whitespace)}} : TRUE)

\* the largest m such that m groups ",ddd" follow position q
ThousandGroups(t, q) ==
    LET ok(m) == \A j \in 0..(m - 1) :
                    /\ q + 4*j + 3 <= Len(t)
                    /\ t[q + 4*j] = ","
                    /\ \A d \in 1..3 : IsDigit(t[q + 4*j + d])
    IN  (CHOOSE one \in {CHOOSE m \in cand : \A m2 \in cand : m2 <= m :
                cand \in {{m \in 0..(Len(t) \div 4) : ok(m)}}} : TRUE)

\* the end positions of (?:\d{1,3}(?:,\d{3})*|\d+) from p, in the order tried
IntEnds(t, p) ==
    (CHOOSE one \in {LET k3 == IF n < 3 THEN n ELSE 3
              \* \d{1,3} greedy, then (?:,\d{3})* greedy
              a(k) == (CHOOSE one \in {[i \in 1..(m + 1) |-> p + k + 4 * (m + 1 - i)] :
                              m \in {ThousandGroups(t, p + k)}} : TRUE)
              ra == Flatten([i \in 1..k3 |-> a(k3 + 1 - i)])
              \* \d+ greedy
              rb == [i \in 1..n |-> p + n + 1 - i]
          IN  ra \o rb : n \in {RunLen(t, p, DigitSet)}} : TRUE)

\* the end positions of (?:\.\d{1,2})? from q, in the order tried
FracEnds(t, q) ==
    IF q <= Len(t) /\ t[q] = "."
    THEN (CHOOSE one \in {(IF n >= 2 THEN <<q + 3>> ELSE <<>>) \o (IF n >= 1 THEN <<q + 2>> ELSE <<>>)
               \o <<q>> : n \in {RunLen(t, q + 1, DigitSet)}} : TRUE)
    ELSE <<q>>

AmountEnds(t, p) ==
    (CHOOSE one \in {Flatten([i \in 1..Len(ie) |-> FracEnds(t, ie[i])]) : ie \in {IntEnds(t, p)}} : TRUE)

\* (?P<g>amount) : required
Amount(t, st, g) ==
    (CHOOSE one \in {[i \in 1..Len(e) |-> [st EXCEPT ![g] = SubSeq(t, st.p, e[i] - 1), !.p = e[i]]] :
            e \in {AmountEnds(t, st.p)}} : TRUE)

\* (?P<amt2>amount)? : amt2 is never read, only its extent matters
OptAmount(t, st) ==
    (CHOOSE one \in {[i \in 1..Len(e) |-> [st EXCEPT !.p = e[i]]] \o <<st>> :
            e \in {AmountEnds(t, st.p)}} : TRUE)

\* first alternative of PRICE_RE: a range (extractor.py:24-29)
RangeBranch(t, p) ==
    (CHOOSE one \in {(CHOOSE one \in {(CHOOSE one \in {(CHOOSE one \in {(CHOOSE one \in {(CHOOSE one \in {(CHOOSE one \in {(CHOOSE one \in {(CHOOSE one \in {
        FlatMap(LAMBDA s : OptGroup(t, s, "curr2", CurrCode), s9) :
            s9 \in {FlatMap(LAMBDA s : OptAmount(t, s), s8)}} : TRUE) :
            s8 \in {FlatMap(LAMBDA s : Spaces(t, s), s7)}} : TRUE) :
            s7 \in {FlatMap(LAMBDA s : OptGroup(t, s, "curr_range", CurrAny), s6)}} : TRUE) :
            s6 \in {FlatMap(LAMBDA s : Spaces(t, s), s5)}} : TRUE) :
            s5 \in {FlatMap(LAMBDA s : Alt(t, s, RangeSep), s4)}} : TRUE) :
            s4 \in {FlatMap(LAMBDA s : Spaces(t, s), s3)}} : TRUE) :
            s3 \in {FlatMap(LAMBDA s : Amount(t, s, "amt1"), s2)}} : TRUE) :
            s2 \in {FlatMap(LAMBDA s : Spaces(t, s), s1)}} : TRUE) :
            s1 \in {OptGroup(t, MatchState(p), "curr", CurrAny)}} : TRUE)

\* second alternative of PRICE_RE: a single price (extractor.py:31-33)
SoloBranch(t, p) ==
    (CHOOSE one \in {(CHOOSE one \in {(CHOOSE one \in {(CHOOSE one \in {
        FlatMap(LAMBDA s : OptGroup(t, s, "curr2_solo", CurrCode), s4) :
            s4 \in {FlatMap(LAMBDA s : Spaces(t, s), s3)}} : TRUE) :
            s3 \in {FlatMap(LAMBDA s : Amount(t, s, "amt_solo"), s2)}} : TRUE) :
            s2 \in {FlatMap(LAMBDA s : Spaces(t, s), s1)}} : TRUE) :
            s1 \in {OptGroup(t, MatchState(p), "curr_solo", CurrAny)}} : TRUE)

\* PRICE_RE matched at position p: <<>> or <<the match>>
PRICE_RE(t, p) ==
    (CHOOSE one \in {IF r # <<>> THEN <<Head(r)>>
          ELSE (CHOOSE one \in {IF r2 # <<>> THEN <<Head(r2)>> ELSE <<>> : r2 \in {SoloBranch(t, p)}} : TRUE) :
            r \in {RangeBranch(t, p)}} : TRUE)

\* PRICE_RE.finditer(text): the non-overlapping matches, leftmost first.  M holds
\* the match at every start position; the scan takes the leftmost start and
\* goes on from the end of its match.
finditer(t) ==
    (CHOOSE one \in {(CHOOSE one \in {
        LET n == Len(M)
            \* the first start at or after p; n + 1 when there is none
            From(p) == IF \E q \in starts : q >= p
                       THEN CHOOSE q \in starts : q >= p /\ \A r \in starts : r >= p => q <= r
                       ELSE n + 1
            \* the start of the i-th match; n + 1 when there are fewer matches
            at[i \in 1..(n + 1)] ==
                IF i = 1 THEN From(1)
                ELSE (CHOOSE one \in {IF a > n THEN a ELSE From(M[a][1].p) : a \in {at[i-1]}} : TRUE)
            k == Cardinality(starts)
            cnt == CHOOSE c \in 0..k : (c = k \/ at[c + 1] > n) /\ \A i \in 1..c : at[i] <= n
        IN  [i \in 1..cnt |-> M[at[i]][1]] :
            starts \in {{q \in 1..Len(M) : M[q] # <<>>}}} : TRUE) :
        M \in {[q \in 1..Len(t) |-> PRICE_RE(t, q)] \o <<>>}} : TRUE)

\* _first (extractor.py:39) over optional strings
_first(values) ==
    IF \E i \in 1..Len(values) : Truthy(values[i])
    THEN values[CHOOSE i \in 1..Len(values) :
                    Truthy(values[i]) /\ \A j \in 1..(i - 1) : ~Truthy(values[j])]
    ELSE None

\* the value of a string of digits
DigitsValue(ds) ==
    LET r[i \in 0..Len(ds)] == IF i = 0 THEN 0 ELSE 10 * r[i-1] + DigitVal(ds[i])
    IN  r[Len(ds)]

\* float(amt.replace(",", "")) in cents, for an amount with at most two decimals
AmountCents(amt) ==
    (CHOOSE one \in {LET dot == IndexIn(".", a)
              whole == SelectSeq(IF dot = 0 THEN a ELSE SubSeq(a, 1, dot - 1), IsDigit)
              frac == IF dot = 0 THEN <<>> ELSE SubSeq(a, dot + 1, Len(a))
          IN  100 * DigitsValue(whole)
              + (IF Len(frac) = 2 THEN DigitsValue(frac)
                 ELSE IF Len(frac) = 1 THEN 10 * DigitsValue(frac) ELSE 0) : a \in {amt}} : TRUE)

\* _extract_prices (extractor.py:60): the (amount, currency) pairs in match order
_extract_prices(text) ==
    LET pair(m) ==
            [amount |-> AmountCents(IF Truthy(m.amt1) THEN m.amt1 ELSE m.amt_solo),
             currency |-> _norm_currency(_first(<<m.curr, m.curr_range, m.curr2,
                                                  m.curr_solo, m.curr2_solo>>))]
    IN  (CHOOSE one \in {[i \in 1..Len(ms) |-> pair(ms[i])] :
                ms \in (CHOOSE one \in {{finditer(t)} : t \in {text}} : TRUE)} : TRUE)

(***************************************************************************)
(* URLs (urllib.parse), for http URLs and relative references              *)
(***************************************************************************)
StartsWith(s, pre) == Len(s) >= Len(pre) /\ SubSeq(s, 1, Len(pre)) = pre

HttpScheme == <<"h","t","t","p",":">>
HasScheme(u) == Len(u) >= Len(HttpScheme) /\ Lower(SubSeq(u, 1, Len(HttpScheme))) = HttpScheme

\* the reference without its scheme
AfterScheme(u) == IF HasScheme(u) THEN SubSeq(u, Len(HttpScheme) + 1, Len(u)) ELSE u

\* urlparse(u).netloc is non-empty
HasNetloc(u) ==
    (CHOOSE one \in {StartsWith(r, <<"/","/">>) /\ Len(r) > 2 /\ r[3] \notin {"/", "#", "?"} :
            r \in {AfterScheme(u)}} : TRUE)

\* urlparse(u).fragment is non-empty
HasFragment(u) == \E i \in 1..(Len(u) - 1) : u[i] = "#"

\* u cut before the first of its characters from position `from` on that is in `marks`
Before(u, from, marks) ==
    (CHOOSE one \in {IF at = {} THEN u ELSE SubSeq(u, 1, (CHOOSE i \in at : \A j \in at : i <= j) - 1) :
            at \in {{i \in from..Len(u) : u[i] \in marks}}} : TRUE)

\* the part of an absolute URL before its path: scheme://netloc
Origin(u) ==
    (CHOOSE one \in {HttpScheme \o Before(r, 3, {"/", "#", "?"}) : r \in {AfterScheme(u)}} : TRUE)

\* the base up to and including the last "/" of its path
BaseDir(base) ==
    (CHOOSE one \in {(CHOOSE one \in {IF sl = {} THEN o \o <<"/">>
                ELSE SubSeq(b, 1, CHOOSE i \in sl : \A j \in sl : j <= i) :
                  sl \in {{i \in (Len(o) + 1)..Len(b) : b[i] = "/"}}} : TRUE) :
            b \in {Before(base, 1, {"#", "?"})}, o \in {Origin(base)}} : TRUE)

\* urljoin(base, ref)
urljoin(base, ref) ==
    IF base = <<>> THEN ref
    ELSE IF ref = <<>> THEN base
    ELSE IF HasScheme(ref) THEN ref
    ELSE IF StartsWith(ref, <<"/","/">>) THEN HttpScheme \o ref
    ELSE IF ~HasNetloc(base) THEN ref
    ELSE IF ref[1] = "/" THEN Origin(base) \o ref
    ELSE IF ref[1] = "#" THEN Before(base, 1, {"#"}) \o ref
    ELSE IF ref[1] = "?" THEN Before(base, 1, {"#", "?"}) \o ref
    ELSE BaseDir(base) \o ref

(***************************************************************************)
(* Dates: _to_iso                                                          *)
(*                                                                         *)
(* A date is <<year, month, day>>; a datetime is a date and a time of day  *)
(* at half-day grain (0 is midnight, 1 is midday), enough to tell a whole  *)
(* number of days from a fraction of a day.  dateparser is a library: what *)
(* it makes of a text is an input of the model, except for a text of the   *)
(* form YYYY-MM-DD, which it reads as that date.                           *)
(***************************************************************************)
NoDate == <<>>

IsLeap(y) == (y % 4 = 0 /\ y % 100 # 0) \/ y % 400 = 0
MonthLen(y, m) ==
    IF m = 2 THEN (IF IsLeap(y) THEN 29 ELSE 28)
    ELSE IF m \in {4, 6, 9, 11} THEN 30 ELSE 31
DaysBeforeYear(y) ==
    (CHOOSE one \in {365 * p + (p \div 4) - (p \div 100) + (p \div 400) : p \in {y - 1}} : TRUE)
DaysBeforeMonth(y, m) ==
    LET acc[i \in 0..(m - 1)] == IF i = 0 THEN 0 ELSE acc[i-1] + MonthLen(y, i)
    IN  acc[m - 1]
\* date.toordinal()
Ordinal(dte) == DaysBeforeYear(dte[1]) + DaysBeforeMonth(dte[1], dte[2]) + dte[3]
\* dt.date() < datetime.now().date()
DateLess(da, db) == Ordinal(da) < Ordinal(db)
DateTime(dte, tod) == [date |-> dte, tod |-> tod]
\* (a - b).days: the whole days of the difference, rounded down
DeltaDays(a, b) ==
    (2 * (Ordinal(a.date) - Ordinal(b.date)) + a.tod - b.tod) \div 2

Pad(n, width) == [i \in 1..width |-> Digits[((n \div (10 ^ (width - i))) % 10) + 1]]
\* dt.strftime("%Y-%m-%d")
strftime(dte) == Pad(dte[1], 4) \o <<"-">> \o Pad(dte[2], 2) \o <<"-">> \o Pad(dte[3], 2)

\* a text of the form YYYY-MM-DD that names a calendar date
IsIsoText(d) ==
    /\ Len(d) = 10 /\ d[5] = "-" /\ d[8] = "-"
    /\ \A i \in {1, 2, 3, 4, 6, 7, 9, 10} : IsDigit(d[i])
    /\ \A m \in {DigitsValue(SubSeq(d, 6, 7))} :
          /\ m \in 1..12
          /\ DigitsValue(SubSeq(d, 9, 10)) \in 1..MonthLen(DigitsValue(SubSeq(d, 1, 4)), m)
IsoDate(d) ==
    <<DigitsValue(SubSeq(d, 1, 4)), DigitsValue(SubSeq(d, 6, 7)), DigitsValue(SubSeq(d, 9, 10))>>

ReinterpretWindow == 400

\* the test of the next-year reading
Adopt_AnyReading(alt, now) == alt # NoDate
Adopt(alt, now) == alt # NoDate /\ DeltaDays(alt, now) < ReinterpretWindow

\* _to_iso(d) at the instant now, where dateparser reads d as dt (NoDate when
\* it finds no date) and reads d followed by next year's number as alt
_to_iso(d, now, dt, alt) ==
    IF d = None \/ d = <<>>
    THEN [ret |-> None, dt |-> NoDate, tried |-> FALSE, alt |-> NoDate, used |-> FALSE]
    ELSE IF dt # NoDate /\ DateLess(dt.date, now.date)
    THEN IF Adopt(alt, now)
         THEN [ret |-> strftime(alt.date), dt |-> dt, tried |-> TRUE, alt |-> alt, used |-> TRUE]
         ELSE [ret |-> strftime(dt.date), dt |-> dt, tried |-> TRUE, alt |-> alt, used |-> FALSE]
    ELSE [ret |-> IF dt = NoDate THEN None ELSE strftime(dt.date),
          dt |-> dt, tried |-> FALSE, alt |-> NoDate, used |-> FALSE]

(***************************************************************************)
(* Prices of structured data                                               *)
(***************************************************************************)
NoPrice == [k |-> "none", v |-> 0]
NaN == [k |-> "nan", v |-> 0]
Unparseable == [k |-> "bad", v |-> 0]
Num(cents) == [k |-> "num", v |-> cents]

AllDigits(d) == \A i \in 1..Len(d) : IsDigit(d[i])

\* float(text) for a decimal with at most two fraction digits, or "nan";
\* anything else raises ValueError (Unparseable)
float(text) ==
    (CHOOSE one \in {LET neg == s # <<>> /\ s[1] = "-"
              body == IF s # <<>> /\ s[1] \in {"-", "+"} THEN Tail(s) ELSE s
              dot == IndexIn(".", body)
              whole == IF dot = 0 THEN body ELSE SubSeq(body, 1, dot - 1)
              frac == IF dot = 0 THEN <<>> ELSE SubSeq(body, dot + 1, Len(body))
          IN  IF Lower(body) = <<"n","a","n">> THEN NaN
              ELSE IF /\ AllDigits(whole) /\ AllDigits(frac)
                      /\ Len(whole) + Len(frac) > 0 /\ Len(frac) <= 2
                   THEN Num((IF neg THEN -1 ELSE 1) * AmountCents(body))
              ELSE Unparseable : s \in {Strip(text)}} : TRUE)

\* pv < best_price on floats: every comparison with NaN is False
FloatLess(a, b) == a.k = "num" /\ b.k = "num" /\ a.v < b.v

\* a priceCurrency that is not text and not falsy, such as ["USD"]
NonStr == <<"<non-str>">>
\* _norm_currency of such a value raises at cur.strip() (extractor.py:57)
CurrencyRaises(cur) == cur = NonStr

\* _from_offers (extractor.py:101): offers is the list of offer objects, each
\* with an optional price text and an optional priceCurrency; an offer whose
\* currency makes _norm_currency raise, or whose price is missing or does not
\* parse, is passed over
_from_offers(offers) ==
    LET best[i \in 0..Len(offers)] ==
            IF i = 0 THEN [price |-> NoPrice, currency |-> None]
            ELSE (CHOOSE one \in {IF CurrencyRaises(offers[i].priceCurrency) THEN prev
                       ELSE IF pv.k \in {"none", "bad"} THEN prev
                       ELSE IF prev.price = NoPrice \/ FloatLess(pv, prev.price)
                            THEN [price |-> pv,
                                  currency |-> _norm_currency(offers[i].priceCurrency)]
                       ELSE prev :
                         prev \in {best[i-1]},
                         pv \in {IF offers[i].price = None THEN NoPrice
                                 ELSE float(offers[i].price)}} : TRUE)
    IN  best[Len(offers)]

(***************************************************************************)
(* JSON-LD extractor                                                       *)
(***************************************************************************)
\* _coerce_str (extractor.py:115) of an optional string
_coerce_str(x) == IF x = None THEN None ELSE _clean_text(x)

\* ",".join(elems)
JoinComma(elems) ==
    LET r[i \in 0..Len(elems)] ==
            IF i = 0 THEN <<>>
            ELSE IF i = 1 THEN elems[1]
            ELSE r[i-1] \o <<",">> \o elems[i]
    IN  r[Len(elems)]

Denylist == {<<"j","o","b","p","o","s","t","i","n","g">>, <<"p","e","r","s","o","n">>, <<"o","r","g","a","n","i","z","a","t","i","o","n">>, <<"f","a","q","p","a","g","e">>, <<"a","r","t","i","c","l","e">>}

\* add_row if it kept only rows that have a description; C10_NameAmongCandidates
\* depends on a name alone being enough
add_row_NeedsDescription(name, desc, mode, price, currency, u, rtype, base_url) ==
    (CHOOSE one \in {IF Truthy(row.description) THEN <<row>> ELSE <<>> :
            row \in {[title |-> IF Truthy(name) THEN _clean_text(name) ELSE None,
                      description |-> IF Truthy(desc) THEN _clean_text(desc) ELSE None,
                      url |-> Or(u, base_url),
                      price |-> price, currency |-> currency,
                      mode |-> Or(_coerce_str(mode), None),
                      type |-> Or(rtype, None),
                      by |-> "jsonld"]}} : TRUE)

\* the row add_row builds (extractor.py:141), kept if it has a title or a description
add_row(name, desc, mode, price, currency, u, rtype, base_url) ==
    (CHOOSE one \in {IF Truthy(row.title) \/ Truthy(row.description) THEN <<row>> ELSE <<>> :
            row \in {[title |-> IF Truthy(name) THEN _clean_text(name) ELSE None,
                      description |-> IF Truthy(desc) THEN _clean_text(desc) ELSE None,
                      url |-> Or(u, base_url),
                      price |-> price, currency |-> currency,
                      mode |-> Or(_coerce_str(mode), None),
                      type |-> Or(rtype, None),
                      by |-> "jsonld"]}} : TRUE)

\* the lower-cased type string (extractor.py:133-135); joining a list that
\* holds a non-string raises TypeError
TypeRaises(obj) == obj.type.list /\ obj.type.nonstr
typ(obj) == Lower(IF obj.type.list THEN JoinComma(obj.type.elems) ELSE obj.type.elems[1])

\* the branches of _rows_from_jsonld without the test of line 138 before them
_rows_from_jsonld_NoDenylist(obj, base_url) ==
    (CHOOSE one \in {IF \/ Contains(t, <<"c","o","u","r","s","e">>)
                  \/ (obj.type.list /\ obj.type.elems = <<<<"L","e","a","r","n","i","n","g","R","e","s","o","u","r","c","e">>, <<"C","o","u","r","s","e">>>>)
               THEN add_row(name, desc, _coerce_str(obj.mode), offer.price, offer.currency,
                            Or(_coerce_str(Or(obj.url, obj.mainEntityOfPage)), base_url),
                            T_Course, base_url)
          ELSE IF Contains(t, <<"e","v","e","n","t">>)
               THEN add_row(name, desc, _coerce_str(obj.mode), offer.price, offer.currency,
                            Or(_coerce_str(obj.url), base_url), T_Seminar, base_url)
          ELSE IF ContainsAny(t, {<<"c","r","e","a","t","i","v","e","w","o","r","k">>, <<"l","e","a","r","n","i","n","g","r","e","s","o","u","r","c","e">>})
               THEN add_row(name, desc, None, NoPrice, None,
                            Or(_coerce_str(obj.url), base_url), None, base_url)
          ELSE <<>> :
            t \in {typ(obj)},
            name \in {_coerce_str(obj.name)},
            desc \in {_coerce_str(obj.description)},
            offer \in {_from_offers(obj.offers)}} : TRUE)

\* _rows_from_jsonld (extractor.py:132) for an object whose @type can be joined
_rows_from_jsonld(obj, base_url) ==
    (CHOOSE one \in {IF ContainsAny(t, Denylist) THEN <<>>
          ELSE IF \/ Contains(t, <<"c","o","u","r","s","e">>)
                  \/ (obj.type.list /\ obj.type.elems = <<<<"L","e","a","r","n","i","n","g","R","e","s","o","u","r","c","e">>, <<"C","o","u","r","s","e">>>>)
               THEN add_row(name, desc, _coerce_str(obj.mode), offer.price, offer.currency,
                            Or(_coerce_str(Or(obj.url, obj.mainEntityOfPage)), base_url),
                            T_Course, base_url)
          ELSE IF Contains(t, <<"e","v","e","n","t">>)
               THEN add_row(name, desc, _coerce_str(obj.mode), offer.price, offer.currency,
                            Or(_coerce_str(obj.url), base_url), T_Seminar, base_url)
          ELSE IF ContainsAny(t, {<<"c","r","e","a","t","i","v","e","w","o","r","k">>, <<"l","e","a","r","n","i","n","g","r","e","s","o","u","r","c","e">>})
               THEN add_row(name, desc, None, NoPrice, None,
                            Or(_coerce_str(obj.url), base_url), None, base_url)
          ELSE <<>> :
            t \in {typ(obj)},
            name \in {_coerce_str(obj.name)},
            desc \in {_coerce_str(obj.description)},
            offer \in {_from_offers(obj.offers)}} : TRUE)

\* _iter_jsonld (extractor.py:85): the objects one script block yields; a block
\* that is not valid JSON is skipped
_iter_jsonld(blk) == IF blk.valid THEN blk.items ELSE <<>>

\* the loop of extract_programs over the objects of one block (extractor.py:295):
\* the rows gathered before an object raised, if one did
BlockRows(objs, base_url) ==
    LET bad == {i \in 1..Len(objs) : TypeRaises(objs[i])}
        n == IF bad = {} THEN Len(objs) ELSE (CHOOSE i \in bad : \A j \in bad : i <= j) - 1
        NonEmpty(rs) == rs # <<>>
    IN  (CHOOSE one \in {[raised |-> bad # {}, rows |-> [k \in 1..Len(hit) |-> hit[k][1]]] :
                hit \in {SelectSeq([i \in 1..n |-> _rows_from_jsonld(objs[i], base_url)], NonEmpty)}} : TRUE)

(***************************************************************************)
(* Microdata extractor: one [itemscope][itemtype] element                  *)
(***************************************************************************)
\* url2 of _rows_from_microdata (extractor.py:201-202)
MicrodataUrl(item, base_url) ==
    (CHOOSE one \in {IF Truthy(u0) /\ ~HasNetloc(u0) THEN urljoin(base_url, u0) ELSE u0 :
            u0 \in {Or(_clean_text(IF item.hasUrlTag THEN item.href ELSE base_url), base_url)}} : TRUE)

\* price of _rows_from_microdata (extractor.py:204-207)
MicrodataPrice(item) ==
    IF Truthy(item.price)
    THEN (CHOOSE one \in {IF pv.k = "bad" THEN NoPrice ELSE pv : pv \in {float(item.price)}} : TRUE)
    ELSE NoPrice

\* the body of the loop of _rows_from_microdata (extractor.py:186-220); an
\* absent property tag is None
MicrodataRow(item, base_url) ==
    (CHOOSE one \in {IF ContainsAny(itype, {<<"c","o","u","r","s","e">>, <<"e","v","e","n","t">>, <<"e","d","u","c","a","t","i","o","n">>})
          THEN <<[title |-> Or(_clean_text(item.name), None),
                  description |-> Or(_clean_text(item.description), None),
                  url |-> MicrodataUrl(item, base_url),
                  price |-> MicrodataPrice(item),
                  currency |-> _norm_currency(item.priceCurrency),
                  mode |-> None, type |-> _classify_type(itype), by |-> "micro"]>>
          ELSE <<>> : itype \in {Lower(Or(item.itemtype, <<>>))}} : TRUE)

(***************************************************************************)
(* Heuristic list extractor: one list-like element                         *)
(***************************************************************************)
\* item.get_text(" "): the heading, the description and the remaining text
ItemText(item) ==
    JoinSp(JoinSp(item.heading, Or(item.para, <<>>)), item.rest)

\* the row of a list-like element that passed the title, link and keyword tests
ListRowOf(item, title, desc, u, combined) ==
    (CHOOSE one \in {[title |-> title, description |-> desc, url |-> u,
           price |-> IF prices = <<>> THEN NoPrice ELSE Num(prices[1].amount),
           currency |-> IF prices = <<>> THEN None ELSE prices[1].currency,
           mode |-> IF ContainsAny(Lower(txt), {<<"o","n","l","i","n","e">>, <<"v","i","r","t","u","a","l">>})
                    THEN <<"O","n","l","i","n","e">> ELSE None,
           type |-> _classify_type(combined), by |-> "list"] :
            txt \in {ItemText(item)}, prices \in {_extract_prices(ItemText(item))}} : TRUE)

\* the body of the loop of _rows_from_lists (extractor.py:232-252); the
\* heading counts as a title only if it has more than one word, the paragraph as
\* a description only if it has more than five
ListRow(item, base_url) ==
    IF WordCount(item.heading) <= 1 \/ item.href = None THEN <<>>
    ELSE (CHOOSE one \in {IF ~HasNetloc(u) \/ HasFragment(u) THEN <<>>
               ELSE IF ~_looks_educational(JoinSp(title, Or(desc, <<>>))) THEN <<>>
               ELSE <<ListRowOf(item, title, desc, u, JoinSp(title, Or(desc, <<>>)))>> :
                 title \in {_clean_text(item.heading)},
                 u \in {urljoin(base_url, item.href)},
                 desc \in {IF item.para # None /\ WordCount(item.para) > 5
                           THEN _clean_text(item.para) ELSE None}} : TRUE)

(***************************************************************************)
(* Fallback extractor                                                      *)
(***************************************************************************)
\* the body text alone; C11_FallbackFromVisibleText depends on the title being
\* visible text
PageText_BodyOnly(page) == _clean_text(page.body)

\* soup.get_text(" "): the document title and the body text; the content
\* attributes of meta tags are not text
PageText(page) == _clean_text(JoinSp(Or(page.title, <<>>), page.body))

\* _rows_from_fallbacks (extractor.py:255)
_rows_from_fallbacks(page, base_url) ==
    (CHOOSE one \in {IF ~_looks_educational(text) THEN <<>>
          ELSE (CHOOSE one \in {<<[title |-> Or(Or(title, page_title), <<"P","r","o","g","r","a","m">>),
                        description |-> Or(_first(<<page.og_desc, page.tw_desc>>), None),
                        url |-> base_url,
                        price |-> IF prices = <<>> THEN NoPrice ELSE Num(prices[1].amount),
                        currency |-> IF prices = <<>> THEN None ELSE prices[1].currency,
                        mode |-> IF Contains(Lower(text), <<"o","n","l","i","n","e">>)
                                 THEN <<"O","n","l","i","n","e">> ELSE None,
                        type |-> _classify_type(text), by |-> "fallback"]>> :
                      prices \in {_extract_prices(text)},
                      title \in {_first(<<page.og_title, page.tw_title, page_title>>)}} : TRUE) :
            text \in {PageText(page)},
            page_title \in {IF Truthy(page.title) THEN _clean_text(page.title) ELSE None}} : TRUE)

(***************************************************************************)
(* Orchestrator: normalisation, deduplication, truncation                  *)
(***************************************************************************)
\* the cap of extract_programs (extractor.py:312)
Cap == 30
\* the list extractor runs below this many structured rows (extractor.py:297)
MinStructured == 5
\* the list extractor scans at most this many elements (extractor.py:231)
ListScanCap == 60

M_Online == <<"O","n","l","i","n","e">>
M_InPerson == <<"I","n","-","p","e","r","s","o","n">>
M_Unknown == <<"U","n","k","n","o","w","n">>
Placeholder == <<"P","r","o","g","r","a","m">>

OnlineWords == {<<"o","n","l","i","n","e">>, <<"v","i","r","t","u","a","l">>, <<"r","e","m","o","t","e">>}
InPersonWords == {<<"i","n","p","e","r","s","o","n">>, <<"i","n","-","p","e","r","s","o","n">>, <<"c","a","m","p","u","s">>, <<"o","n","s","i","t","e">>, <<"o","n","-","s","i","t","e">>, <<"c","l","a","s","s","r","o","o","m">>}

\* the mode assigned by the normalisation pass (extractor.py:305-308)
NormMode(raw) ==
    (CHOOSE one \in {IF ContainsAny(mode, OnlineWords) THEN M_Online
          ELSE IF ContainsAny(mode, InPersonWords) THEN M_InPerson
          ELSE Or(raw, M_Unknown) : mode \in {Lower(Or(raw, <<>>))}} : TRUE)

\* " ".join([title, description]) raises TypeError when the description is
\* None; it is evaluated only when the row has no type (extractor.py:309)
NormRaises(r) == ~Truthy(r.type) /\ ~Truthy(_clean_text(r.description))

\* the normalisation loop without the title placeholder; C9_TitleAndUrl
\* depends on the placeholder
NormRow_NoPlaceholder(r, url) ==
    (CHOOSE one \in {[r EXCEPT !.title = title,
                    !.description = description,
                    !.url = Or(r.url, url),
                    !.currency = IF Truthy(r.currency) THEN _norm_currency(r.currency)
                                 ELSE r.currency,
                    !.mode = NormMode(r.mode),
                    !.type = IF Truthy(r.type) THEN r.type
                             ELSE _classify_type(JoinSp(title, description))] :
            title \in {_clean_text(r.title)},
            description \in {Or(_clean_text(r.description), None)}} : TRUE)

\* the body of the normalisation loop (extractor.py:300-310) for a row that
\* does not raise
NormRow(r, url) ==
    (CHOOSE one \in {[r EXCEPT !.title = title,
                    !.description = description,
                    !.url = Or(r.url, url),
                    !.currency = IF Truthy(r.currency) THEN _norm_currency(r.currency)
                                 ELSE r.currency,
                    !.mode = NormMode(r.mode),
                    !.type = IF Truthy(r.type) THEN r.type
                             ELSE _classify_type(JoinSp(title, description))] :
            title \in {Or(_clean_text(r.title), Placeholder)},
            description \in {Or(_clean_text(r.description), None)}} : TRUE)

Normalize(rows, url) == [i \in 1..Len(rows) |-> NormRow(rows[i], url)]

\* a key that keeps letter case; C3_UniqueKeys depends on the lower-casing
DedupeKey_CaseSensitive(r) == <<Strip(r.title), Strip(r.url)>>

\* the key of _dedupe (extractor.py:286)
DedupeKey(r) == <<Lower(Strip(r.title)), Lower(Strip(r.url))>>

\* the last row of every key instead of the first
_dedupe_KeepLast(rows) ==
    (CHOOSE one \in {(CHOOSE one \in {Pick(rs, {i \in 1..Len(rs) : \A j \in (i + 1)..Len(rs) : key[j] # key[i]}) :
                  key \in {[i \in 1..Len(rs) |-> DedupeKey(rs[i])]}} : TRUE) : rs \in {rows}} : TRUE)

\* _dedupe (extractor.py:283): the first row of every key, in order
_dedupe(rows) ==
    (CHOOSE one \in {(CHOOSE one \in {Pick(rs, {i \in 1..Len(rs) : \A j \in 1..(i - 1) : key[j] # key[i]}) :
                  key \in {[i \in 1..Len(rs) |-> DedupeKey(rs[i])]}} : TRUE) : rs \in {rows}} : TRUE)

\* no cut at all; C2_AtMostCap depends on the cut
Truncate_Off(nr) == nr

\* nr[:30] (extractor.py:312)
Truncate(nr) == (CHOOSE one \in {IF Len(v) > Cap THEN SubSeq(v, 1, Cap) ELSE v : v \in {nr}} : TRUE)

(***************************************************************************)
(* The pages the model reads.  A page is revealed element by element as    *)
(* the extractors reach it: script blocks, microdata elements, list-like   *)
(* elements, and the page-level metadata.                                  *)
(***************************************************************************)
\* how many script blocks, microdata elements and list-like elements a page has in all
MaxInputs == 2

PageUrl == <<"h","t","t","p",":","/","/","x","/","p">>
PageUrls == {PageUrl, <<>>}

TStr(s) == [list |-> FALSE, elems |-> <<s>>, nonstr |-> FALSE]
TList(es) == [list |-> TRUE, elems |-> es, nonstr |-> FALSE]
\* a list @type that holds a non-string, e.g. [1, 2]
TNonStr == [list |-> TRUE, elems |-> <<>>, nonstr |-> TRUE]

Obj(type, name, desc) ==
    [type |-> type, name |-> name, description |-> desc, url |-> None,
     mainEntityOfPage |-> None, mode |-> None, offers |-> <<>>]

N_Ab == <<"A","b">>
N_Spaced == <<" "," ","a","b","\t"," ">>
D_d == <<"d">>

ObjTypes == {TStr(<<"C","o","u","r","s","e">>), TStr(<<"E","v","e","n","t">>), TStr(<<"C","r","e","a","t","i","v","e","W","o","r","k">>),
             TList(<<<<"C","o","u","r","s","e">>, <<"P","e","r","s","o","n">>>>), TNonStr}

Offer(p, c) == [price |-> p, priceCurrency |-> c]

JsonLdObjects ==
    \* every type, with a name and a description
    {Obj(t, N_Ab, D_d) : t \in ObjTypes}
    \* the same name in another case and with other whitespace
    \cup {Obj(TStr(<<"C","o","u","r","s","e">>), N_Spaced, D_d)}
    \* no name, no description, neither
    \cup {Obj(t, None, D_d) : t \in {TStr(<<"C","o","u","r","s","e">>), TStr(<<"C","r","e","a","t","i","v","e","W","o","r","k">>)}}
    \cup {Obj(t, N_Ab, None) : t \in {TStr(<<"C","o","u","r","s","e">>), TStr(<<"C","r","e","a","t","i","v","e","W","o","r","k">>)}}
    \cup {Obj(TStr(<<"C","r","e","a","t","i","v","e","W","o","r","k">>), None, None)}
    \* urls: relative, absolute in another case, through mainEntityOfPage
    \cup {[Obj(TStr(<<"C","o","u","r","s","e">>), N_Ab, D_d) EXCEPT !.url = u] :
             u \in {<<"/","c","1">>, <<"H","T","T","P",":","/","/","X","/","P">>}}
    \cup {[Obj(TStr(<<"C","o","u","r","s","e">>), N_Ab, D_d) EXCEPT !.mainEntityOfPage = <<"m","2">>]}
    \* delivery modes
    \cup {[Obj(TStr(<<"E","v","e","n","t">>), N_Ab, D_d) EXCEPT !.mode = m] :
             m \in {<<"R","e","m","o","t","e"," ","s","e","s","s","i","o","n">>, <<"O","n","-","c","a","m","p","u","s"," ","o","n","l","y">>, <<"H","y","b","r","i","d"," ","f","l","e","x","i","b","l","e">>}}
    \* offers
    \cup {[Obj(TStr(<<"C","o","u","r","s","e">>), N_Ab, D_d) EXCEPT !.offers = o] :
             o \in {<<Offer(<<"2","0">>, <<"u","s","d">>), Offer(<<"9",".","5","0">>, <<"x","y","z">>)>>,
                    <<Offer(<<"f","r","e","e">>, <<"<euro>">>), Offer(None, <<"G","B","P">>), Offer(<<"-","5">>, <<" ","$"," ">>)>>}}

\* the name of the k-th entry of a catalogue: "C07"
CatName(k) == <<"C", Digits[(k \div 10) + 1], Digits[(k % 10) + 1]>>

\* a block that lists n courses under d distinct names
Catalogue(n, d) ==
    [valid |-> TRUE,
     items |-> [i \in 1..n |-> Obj(TStr(<<"C","o","u","r","s","e">>), CatName(((i - 1) % d) + 1), None)]]

JsonLdBlocks ==
    {[valid |-> TRUE, items |-> <<o>>] : o \in JsonLdObjects}
    \cup {[valid |-> FALSE, items |-> <<>>]}
    \cup {Catalogue(MinStructured, MinStructured), Catalogue(Cap + 1, Cap)}

Micro(itemtype, name, hasUrlTag, href, price, cur) ==
    [itemtype |-> itemtype, name |-> name, description |-> None, hasUrlTag |-> hasUrlTag,
     href |-> href, price |-> price, priceCurrency |-> cur]

MicroItems ==
    {Micro(<<"h","t","t","p",":","/","/","s","c","h","e","m","a",".","o","r","g","/","C","o","u","r","s","e">>, N_Ab, TRUE, <<"/","m","1">>, <<"1","2",".","5","0">>, <<"u","s","d">>),
     Micro(<<"h","t","t","p",":","/","/","s","c","h","e","m","a",".","o","r","g","/","C","o","u","r","s","e">>, None, FALSE, None, <<"f","r","e","e">>, <<"x","y","z">>),
     Micro(<<"h","t","t","p",":","/","/","s","c","h","e","m","a",".","o","r","g","/","E","v","e","n","t">>, N_Spaced, TRUE, <<"h","t","t","p",":","/","/","x","/","P">>, None, None),
     Micro(<<"h","t","t","p",":","/","/","s","c","h","e","m","a",".","o","r","g","/","C","o","u","r","s","e">>, <<" ">>, TRUE, None, <<"-","5">>, <<" ","<euro>"," ">>),
     Micro(<<"h","t","t","p",":","/","/","s","c","h","e","m","a",".","o","r","g","/","P","r","o","d","u","c","t">>, N_Ab, TRUE, <<"/","m","5">>, <<"3">>, USD)}

Li(heading, href, para, rest) ==
    [heading |-> heading, href |-> href, para |-> para, rest |-> rest]

ListItems ==
    {Li(<<"F","r","e","e"," ","c","o","u","r","s","e">>, <<"/","l","1">>, None, <<"$","1","0","0","<endash>","1","5","0"," ","o","n","l","i","n","e">>),
     Li(<<"V","i","d","e","o"," ","w","e","b","i","n","a","r">>, <<"h","t","t","p",":","/","/","y","/","W">>, <<"a"," ","b"," ","c"," ","d"," ","e"," ","1","0","0"," ","t","o"," ","1","5","0"," ","U","S","D">>, <<>>),
     Li(<<"C","o","u","r","s","e">>, <<"/","l","3">>, None, <<>>),
     Li(<<"B","i","g"," ","w","o","r","k","s","h","o","p">>, <<"#","t","o","p">>, None, <<>>),
     Li(<<"S","o","m","e"," ","t","h","i","n","g">>, <<"/","l","5">>, None, <<>>),
     Li(<<"R","e","m","o","t","e"," ","c","l","a","s","s">>, None, None, <<>>)}

Page(og_title, title, og_desc, body) ==
    [og_title |-> og_title, tw_title |-> None, title |-> title,
     og_desc |-> og_desc, tw_desc |-> None, body |-> body]

Pages ==
    {Page(None, <<"F","r","e","e"," ","o","n","l","i","n","e"," ","c","o","u","r","s","e">>, None, <<>>),
     Page(None, <<"H","o","m","e">>, <<"f","r","e","e"," ","o","n","l","i","n","e"," ","c","o","u","r","s","e">>, <<"w","e","l","c","o","m","e">>),
     Page(<<"O","g">>, None, None, <<"l","e","a","r","n"," ","5"," ","U","S","D">>),
     Page(None, None, None, <<"s","t","u","d","y">>),
     Page(None, <<"F","r","e","e"," ","o","n","l","i","n","e"," ","c","o","u","r","s","e">>, None, <<"i","n","t","r","o"," ","v","i","d","e","o">>),
     Page(None, None, None, <<>>)}

(***************************************************************************)
(* extract_programs (extractor.py:291) as a state machine                  *)
(***************************************************************************)
VARIABLES
    pc,       \* where the call is: start, jsonld, micro, lists, fallback, finish, done, raised
    html,     \* "empty" or "doc": whether html_raw is the empty string
    url,      \* the page URL given to the call
    rows,     \* the raw rows accumulated so far
    out,      \* the list returned
    err,      \* the exception that escaped the call, or "none"
    seen,     \* the JSON-LD objects read so far
    nin,      \* the page elements read so far
    nlist,    \* the list-like elements scanned so far
    meta,     \* the page-level metadata the fallback read: <<>> or <<page>>
    tags,     \* the script blocks read so far: whether each held valid JSON
    arg,      \* helper calls: the text given to the price matcher or the classifiers
    fpc,      \* helper calls: idle, priced, classified
    pairs,    \* helper calls: the result of _extract_prices
    labels,   \* helper calls: the results of the two classifiers
    iso,      \* a call of _to_iso: its argument, the instant, what it did and returned
    quote,    \* a call of _from_offers: its argument and what it returned
    programs, \* database: the rows of the programs table, in insertion order
    sources,  \* database: the url column of the sources table
    dberr,    \* database: whether the last save raised
    saves,    \* database: the number of saves made so far
    lastsave, \* database: the rows handed to the latest save
    ldcall,   \* a call of _rows_from_jsonld: its object, the page URL and what it returned
    session,  \* the app: st.session_state
    search    \* a call of search_web: its filters, the queries issued and what it returned

pipeVars == <<pc, html, url, rows, out, err, seen, nin, nlist, meta, tags>>
fnVars == <<arg, fpc, pairs, labels>>
dbVars == <<programs, sources, dberr, saves, lastsave>>
appVars == <<ldcall, session, search>>
auxVars == <<iso, quote, dbVars, appVars>>
vars == <<pc, html, url, rows, out, err, seen, nin, nlist, meta, tags, arg, fpc, pairs, labels, iso, quote,
          programs, sources, dberr, saves, lastsave, ldcall, session, search>>

NoLabels == [extractor |-> None, app |-> None]

\* what each extractor yields for each element of the model on each page URL
JsonLdRows == [blk \in JsonLdBlocks, u \in PageUrls |-> BlockRows(_iter_jsonld(blk), u)]
MicrodataRows == [item \in MicroItems, u \in PageUrls |-> MicrodataRow(item, u)]
ListRows == [item \in ListItems, u \in PageUrls |-> ListRow(item, u)]
FallbackRows == [page \in Pages, u \in PageUrls |-> _rows_from_fallbacks(page, u)]

PipeInit ==
    /\ pc = "start" /\ rows = <<>> /\ out = <<>> /\ err = "none"
    /\ seen = <<>> /\ nin = 0 /\ nlist = 0 /\ meta = <<>> /\ tags = <<>>

FnIdle == arg = <<>> /\ fpc = "idle" /\ pairs = <<>> /\ labels = NoLabels
IsoIdle == [pc |-> "idle"]
QuoteIdle == [pc |-> "idle"]
\* database.py:23: the tables as create_database leaves them
DbInit == programs = <<>> /\ sources = {} /\ dberr = "none" /\ saves = 0 /\ lastsave = <<>>
LdIdle == [pc |-> "idle"]
SearchIdle == [pc |-> "idle"]
\* an empty st.session_state on the Find Programs page: nobody logged in, no
\* results, no card expanded; has_dialog is HAS_DIALOG (app.py:102), page the
\* sidebar's choice.  auth_inline, auth_target_idx and pending_open_url hold
\* the empty set when the key is absent or None, and {i} when it holds i.
SessionInit ==
    [user |-> None, results |-> 0, expanded |-> {}, auth_inline |-> {},
     auth_target_idx |-> {}, show_auth_modal |-> FALSE, pending_open_url |-> {},
     page |-> "find", has_dialog |-> FALSE]
AppIdle == ldcall = LdIdle /\ session = SessionInit /\ search = SearchIdle
AuxIdle == iso = IsoIdle /\ quote = QuoteIdle /\ DbInit /\ AppIdle

Init ==
    /\ html \in {"empty", "doc"}
    /\ url \in PageUrls
    /\ PipeInit
    /\ FnIdle
    /\ AuxIdle

\* the call without the test of line 293
Start_NoEmptyCheck ==
    /\ pc = "start"
    /\ pc' = "jsonld"
    /\ UNCHANGED <<html, url, rows, out, err, seen, nin, nlist, meta, tags>>
    /\ UNCHANGED <<fnVars, auxVars>>

\* extractor.py:293-294: an empty html_raw returns the empty list at once
Start ==
    /\ pc = "start"
    /\ IF html = "empty" THEN pc' = "done" ELSE pc' = "jsonld"
    /\ UNCHANGED <<html, url, rows, out, err, seen, nin, nlist, meta, tags>>
    /\ UNCHANGED <<fnVars, auxVars>>

\* the loop of line 295 if a block that is not valid JSON ended the call
ReadBlock_StopsAtInvalid ==
    /\ pc = "jsonld"
    /\ nin < MaxInputs
    /\ \E blk \in JsonLdBlocks :
          \E res \in {JsonLdRows[blk, url]} :
              /\ seen' = seen \o _iter_jsonld(blk)
              /\ tags' = Append(tags, blk.valid)
              /\ rows' = rows \o res.rows
              /\ IF res.raised \/ ~blk.valid
                 THEN pc' = "raised" /\ err' = "TypeError"
                 ELSE pc' = pc /\ err' = err
    /\ nin' = nin + 1
    /\ UNCHANGED <<html, url, out, nlist, meta>>
    /\ UNCHANGED <<fnVars, auxVars>>

\* extractor.py:295: the next script block; every object it yields is handed to
\* _rows_from_jsonld
ReadBlock ==
    /\ pc = "jsonld"
    /\ nin < MaxInputs
    /\ \E blk \in JsonLdBlocks :
          \E res \in {JsonLdRows[blk, url]} :
              /\ seen' = seen \o _iter_jsonld(blk)
              /\ tags' = Append(tags, blk.valid)
              /\ rows' = rows \o res.rows
              /\ IF res.raised
                 THEN pc' = "raised" /\ err' = "TypeError"
                 ELSE pc' = pc /\ err' = err
    /\ nin' = nin + 1
    /\ UNCHANGED <<html, url, out, nlist, meta>>
    /\ UNCHANGED <<fnVars, auxVars>>

\* the page has no further script block
EndJsonLd ==
    /\ pc = "jsonld"
    /\ pc' = "micro"
    /\ UNCHANGED <<html, url, rows, out, err, seen, nin, nlist, meta, tags>>
    /\ UNCHANGED <<fnVars, auxVars>>

\* extractor.py:296: the next [itemscope][itemtype] element
ReadMicro ==
    /\ pc = "micro"
    /\ nin < MaxInputs
    /\ \E item \in MicroItems : rows' = rows \o MicrodataRows[item, url]
    /\ nin' = nin + 1
    /\ UNCHANGED <<pc, html, url, out, err, seen, nlist, meta, tags>>
    /\ UNCHANGED <<fnVars, auxVars>>

\* the list extractor run whatever the structured extractors gathered
EndMicro_AlwaysLists ==
    /\ pc = "micro"
    /\ pc' = "lists"
    /\ UNCHANGED <<html, url, rows, out, err, seen, nin, nlist, meta, tags>>
    /\ UNCHANGED <<fnVars, auxVars>>

\* extractor.py:297-298: the list extractor runs with fewer than 5 rows
EndMicro ==
    /\ pc = "micro"
    /\ pc' = IF Len(rows) < MinStructured THEN "lists" ELSE "finish"
    /\ UNCHANGED <<html, url, rows, out, err, seen, nin, nlist, meta, tags>>
    /\ UNCHANGED <<fnVars, auxVars>>

\* extractor.py:231: the next list-like element, of the first 60
ReadListItem ==
    /\ pc = "lists"
    /\ nin < MaxInputs
    /\ nlist < ListScanCap
    /\ \E item \in ListItems : rows' = rows \o ListRows[item, url]
    /\ nin' = nin + 1
    /\ nlist' = nlist + 1
    /\ UNCHANGED <<pc, html, url, out, err, seen, meta, tags>>
    /\ UNCHANGED <<fnVars, auxVars>>

\* the fallback run whatever the extractors before it gathered
EndLists_AlwaysFallback ==
    /\ pc = "lists"
    /\ pc' = "fallback"
    /\ UNCHANGED <<html, url, rows, out, err, seen, nin, nlist, meta, tags>>
    /\ UNCHANGED <<fnVars, auxVars>>

\* extractor.py:298: the fallback runs only when there is no row at all
EndLists ==
    /\ pc = "lists"
    /\ pc' = IF rows = <<>> THEN "fallback" ELSE "finish"
    /\ UNCHANGED <<html, url, rows, out, err, seen, nin, nlist, meta, tags>>
    /\ UNCHANGED <<fnVars, auxVars>>

Fallback ==
    /\ pc = "fallback"
    /\ \E page \in Pages : rows' = rows \o FallbackRows[page, url] /\ meta' = <<page>>
    /\ pc' = "finish"
    /\ UNCHANGED <<html, url, out, err, seen, nin, nlist, tags>>
    /\ UNCHANGED <<fnVars, auxVars>>

\* extractor.py:299-313: normalise every row, deduplicate, truncate, return
Finish ==
    /\ pc = "finish"
    /\ IF \E i \in 1..Len(rows) : NormRaises(rows[i])
       THEN pc' = "raised" /\ err' = "TypeError" /\ out' = out
       ELSE pc' = "done" /\ err' = err /\ out' = Truncate(_dedupe(Normalize(rows, url)))
    /\ UNCHANGED <<html, url, rows, seen, nin, nlist, meta, tags>>
    /\ UNCHANGED <<fnVars, auxVars>>

Next ==
    \/ Start
    \/ ReadBlock
    \/ EndJsonLd
    \/ ReadMicro
    \/ EndMicro
    \/ ReadListItem
    \/ EndLists
    \/ Fallback
    \/ Finish

Spec == Init /\ [][Next]_vars

(***************************************************************************)
(* The price matcher and the classifiers called on a text                  *)
(***************************************************************************)
\* price texts: [currency] amount [separator [currency] amount] [currency]
PriceLead == {<<>>, <<"$">>, <<"U","S","D"," ">>}
PriceAmount == {<<"1","0","0">>, <<"1",",","0","0","0",".","5","0">>}
PriceRange == {<<>>, <<" ","t","o"," ","1","5","0">>, <<"<endash>","1","5","0">>, <<" ","-"," ","<euro>","1","5","0">>}
PriceTrail == {<<>>, <<" ","U","S","D">>, <<"U","S","D">>, <<" ","e","u","r">>}
PriceTexts == {a \o b \o c \o d : a \in PriceLead, b \in PriceAmount, c \in PriceRange, d \in PriceTrail}

\* classifier texts: up to two of the words the classifiers look for
TypeWords == {<<"w","e","b","i","n","a","r">>, <<"c","o","n","f","e","r","e","n","c","e">>, <<"v","i","d","e","o">>, <<"L","e","c","t","u","r","e">>, <<"y","o","u","t","u","b","e">>,
              <<"c","o","u","r","s","e">>, <<"d","e","g","r","e","e">>, <<"t","a","l","k">>}
TypeTexts == {JoinSp(a, b) : a \in TypeWords, b \in TypeWords} \cup TypeWords

FnInit ==
    /\ html = "doc" /\ url = PageUrl /\ PipeInit
    /\ arg \in PriceTexts \cup TypeTexts
    /\ fpc = "idle" /\ pairs = <<>> /\ labels = NoLabels
    /\ AuxIdle

ExtractPrices ==
    /\ fpc = "idle"
    /\ fpc' = "priced"
    /\ pairs' = _extract_prices(arg)
    /\ UNCHANGED <<arg, labels>>
    /\ UNCHANGED <<pipeVars, auxVars>>

Classify ==
    /\ fpc = "idle"
    /\ fpc' = "classified"
    /\ labels' = [extractor |-> _classify_type(arg), app |-> classify_type(arg)]
    /\ UNCHANGED <<arg, pairs>>
    /\ UNCHANGED <<pipeVars, auxVars>>

FnNext == ExtractPrices \/ Classify

FnSpec == FnInit /\ [][FnNext]_vars

(***************************************************************************)
(* _to_iso called on a text at an instant                                  *)
(***************************************************************************)
IsoTexts == {<<"2","0","2","4","-","0","1","-","1","5">>, <<"2","0","2","6","-","0","3","-","0","5">>}
FreeTexts == {<<"M","a","r","c","h"," ","5">>, <<"5"," ","M","a","r"," ","1","0",":","0","0">>}
DateTexts == {None, <<>>} \cup IsoTexts \cup FreeTexts
NowDates == {<<2024,1,10>>, <<2026,11,25>>, <<2026,11,26>>, <<2026,11,27>>, <<2027,11,27>>}
Nows == {DateTime(dte, tod) : dte \in NowDates, tod \in {0, 1}}
ParsedDates == {<<2024,1,15>>, <<2026,3,5>>, <<2027,12,31>>, <<2030,1,1>>}
NextYearDays == {<<1,15>>, <<3,5>>, <<12,30>>, <<12,31>>}

\* dateparser.parse(str(d), settings): the date a YYYY-MM-DD text names, and
\* for another text no date or some date
ParseResults(d) ==
    IF IsIsoText(d) THEN {DateTime(IsoDate(d), 0)}
    ELSE {NoDate} \cup {DateTime(dte, tod) : dte \in ParsedDates, tod \in {0, 1}}
\* dateparser.parse(f"{d} {datetime.now().year + 1}", settings): no date, or a
\* date of the year named
ReparseResults(now) ==
    {NoDate} \cup {DateTime(<<now.date[1] + 1, md[1], md[2]>>, tod) : md \in NextYearDays, tod \in {0, 1}}

DateInit ==
    /\ html = "doc" /\ url = PageUrl /\ PipeInit /\ FnIdle
    /\ quote = QuoteIdle /\ DbInit /\ AppIdle
    /\ iso \in {[pc |-> "call", d |-> d, now |-> now] : d \in DateTexts, now \in Nows}

ToIso ==
    /\ iso.pc = "call"
    /\ \E dt \in ParseResults(iso.d), alt \in ReparseResults(iso.now) :
          \E res \in {_to_iso(iso.d, iso.now, dt, alt)} :
              iso' = [pc |-> "returned", d |-> iso.d, now |-> iso.now, ret |-> res.ret,
                      dt |-> res.dt, tried |-> res.tried, alt |-> res.alt, used |-> res.used]
    /\ UNCHANGED <<pipeVars, fnVars, quote, dbVars, appVars>>

DateNext == ToIso

DateSpec == DateInit /\ [][DateNext]_vars

(***************************************************************************)
(* _from_offers called on a list of offers                                 *)
(***************************************************************************)
MaxOffers == 3

OfferPrices == {None, <<"f","r","e","e">>, <<"2","0">>, <<"9",".","5","0">>, <<"9",".","5">>, <<"n","a","n">>}
OfferCurrencies == {<<"u","s","d">>, <<"G","B","P">>, NonStr}
OfferItems == {Offer(p, c) : p \in OfferPrices, c \in OfferCurrencies}
OfferLists == UNION {[1..n -> OfferItems] : n \in 0..MaxOffers}

OfferInit ==
    /\ html = "doc" /\ url = PageUrl /\ PipeInit /\ FnIdle
    /\ iso = IsoIdle /\ DbInit /\ AppIdle
    /\ quote \in {[pc |-> "call", offers |-> o] : o \in OfferLists}

FromOffers ==
    /\ quote.pc = "call"
    /\ \E res \in {_from_offers(quote.offers)} :
          quote' = [pc |-> "returned", offers |-> quote.offers,
                    price |-> res.price, currency |-> res.currency]
    /\ UNCHANGED <<pipeVars, fnVars, iso, dbVars, appVars>>

OfferNext == FromOffers

OfferSpec == OfferInit /\ [][OfferNext]_vars

(***************************************************************************)
(* _rows_from_jsonld called on one object                                  *)
(***************************************************************************)
\* @type values that hold a denylisted name: alone, beside Course, beside
\* Event, and inside a longer type name
DenylistedTypes ==
    {TStr(<<"J","o","b","P","o","s","t","i","n","g">>),
     TList(<<<<"C","o","u","r","s","e">>, <<"J","o","b","P","o","s","t","i","n","g">>>>),
     TList(<<<<"J","o","b","P","o","s","t","i","n","g">>, <<"E","v","e","n","t">>>>),
     TStr(<<"P","e","r","s","o","n">>),
     TList(<<<<"C","o","u","r","s","e">>, <<"P","e","r","s","o","n">>>>),
     TList(<<<<"P","e","r","s","o","n">>, <<"E","v","e","n","t">>>>),
     TStr(<<"O","r","g","a","n","i","z","a","t","i","o","n">>),
     TList(<<<<"C","o","u","r","s","e">>, <<"O","r","g","a","n","i","z","a","t","i","o","n">>>>),
     TList(<<<<"O","r","g","a","n","i","z","a","t","i","o","n">>, <<"E","v","e","n","t">>>>),
     TStr(<<"F","A","Q","P","a","g","e">>),
     TList(<<<<"C","o","u","r","s","e">>, <<"F","A","Q","P","a","g","e">>>>),
     TList(<<<<"F","A","Q","P","a","g","e">>, <<"E","v","e","n","t">>>>),
     TStr(<<"A","r","t","i","c","l","e">>),
     TList(<<<<"C","o","u","r","s","e">>, <<"A","r","t","i","c","l","e">>>>),
     TList(<<<<"A","r","t","i","c","l","e">>, <<"E","v","e","n","t">>>>),
     TStr(<<"N","e","w","s","A","r","t","i","c","l","e">>),
     TStr(<<"E","d","u","c","a","t","i","o","n","a","l","O","r","g","a","n","i","z","a","t","i","o","n">>)}
LdTypes == DenylistedTypes \cup ObjTypes
LdObjects == {Obj(t, n, d) : t \in LdTypes, n \in {N_Ab, None}, d \in {D_d, None}}

LdInit ==
    /\ html = "doc" /\ url = PageUrl /\ PipeInit /\ FnIdle
    /\ iso = IsoIdle /\ quote = QuoteIdle /\ DbInit
    /\ session = SessionInit /\ search = SearchIdle
    /\ ldcall \in {[pc |-> "call", obj |-> o, base_url |-> u] : o \in LdObjects, u \in PageUrls}

RowsFromJsonLd ==
    /\ ldcall.pc = "call"
    /\ \E res \in {BlockRows(<<ldcall.obj>>, ldcall.base_url)} :
          ldcall' = [pc |-> "returned", obj |-> ldcall.obj, base_url |-> ldcall.base_url,
                     rows |-> res.rows, raised |-> res.raised]
    /\ UNCHANGED <<pipeVars, fnVars, iso, quote, dbVars, session, search>>

LdNext == RowsFromJsonLd

LdSpec == LdInit /\ [][LdNext]_vars

(***************************************************************************)
(* The Find Programs page (app.py): the session and its buttons            *)
(***************************************************************************)
MaxCards == 2
ShownCards == 12

Member == <<"m">>

\* app.py:369-373: a run of the Find Programs page with a user logged in
\* drops the pending link
Rerun(sess) ==
    IF sess.page = "find" /\ sess.user # None /\ sess.pending_open_url # {}
    THEN [sess EXCEPT !.pending_open_url = {}]
    ELSE sess

\* the cards on display (app.py:381)
Cards(sess) == 0..((IF sess.results < ShownCards THEN sess.results ELSE ShownCards) - 1)

UiInit ==
    /\ html = "doc" /\ url = PageUrl /\ PipeInit /\ FnIdle
    /\ iso = IsoIdle /\ quote = QuoteIdle /\ DbInit
    /\ ldcall = LdIdle /\ search = SearchIdle
    /\ session \in {[SessionInit EXCEPT !.has_dialog = b] : b \in BOOLEAN}

UiUnchanged == UNCHANGED <<pipeVars, fnVars, iso, quote, dbVars, ldcall, search>>

\* the sidebar's page choice (app.py:271)
Navigate ==
    /\ \E pg \in {"find", "programs"} :
          /\ pg # session.page
          /\ session' = Rerun([session EXCEPT !.page = pg])
    /\ UiUnchanged

\* app.py:300-366: a search that found rows stores them and resets the toggles
NewSearch ==
    /\ session.page = "find"
    /\ \E n \in 1..MaxCards :
          session' = Rerun([session EXCEPT !.results = n, !.expanded = {}])
    /\ UiUnchanged

\* app.py:394-399: the title button of a card, shown to a visitor
LoginToOpen ==
    /\ session.page = "find" /\ session.user = None
    /\ \E i \in Cards(session) :
          session' = Rerun([session EXCEPT !.auth_target_idx = {i}, !.auth_inline = {i},
                                           !.pending_open_url = {i}])
    /\ UiUnchanged

\* app.py:413-422
SeeMore ==
    /\ session.page = "find"
    /\ \E i \in Cards(session) \ session.expanded :
          session' = Rerun(IF session.user = None
                           THEN [session EXCEPT !.auth_target_idx = {i}, !.auth_inline = {i}]
                           ELSE [session EXCEPT !.expanded = @ \cup {i}])
    /\ UiUnchanged

\* app.py:423-427
Hide ==
    /\ session.page = "find"
    /\ \E i \in Cards(session) \cap session.expanded :
          session' = Rerun([session EXCEPT !.expanded = @ \ {i}])
    /\ UiUnchanged

\* app.py:430-448: the inline card's Sign in, with good or bad credentials
InlineSignIn ==
    /\ session.page = "find" /\ session.user = None
    /\ session.auth_inline \cap Cards(session) # {}
    /\ \E ok \in BOOLEAN :
          session' = IF ok
                     THEN Rerun([session EXCEPT !.user = Member,
                                                !.expanded = @ \cup session.auth_inline,
                                                !.auth_inline = {}])
                     ELSE session
    /\ UiUnchanged

\* app.py:450-452
InlineCancel ==
    /\ session.page = "find" /\ session.user = None
    /\ session.auth_inline \cap Cards(session) # {}
    /\ session' = Rerun([session EXCEPT !.auth_inline = {}])
    /\ UiUnchanged

\* app.py:60-67: the sidebar's Sign in
SidebarSignIn ==
    /\ session.user = None
    /\ \E ok \in BOOLEAN :
          session' = IF ok THEN Rerun([session EXCEPT !.user = Member]) ELSE session
    /\ UiUnchanged

\* app.py:82-84
Logout ==
    /\ session.user # None
    /\ session' = Rerun([session EXCEPT !.user = None])
    /\ UiUnchanged

\* app.py:477-485: Open details on the Programs page, by a visitor
OpenDetails ==
    /\ session.page = "programs" /\ session.user = None
    /\ session' = Rerun(IF session.has_dialog
                        THEN [session EXCEPT !.auth_target_idx = {}, !.show_auth_modal = TRUE]
                        ELSE [session EXCEPT !.auth_target_idx = {}, !.auth_inline = {-1}])
    /\ UiUnchanged

\* app.py:117-128: the dialog's Sign in
ModalSignIn ==
    /\ session.show_auth_modal /\ session.has_dialog
    /\ \E ok \in BOOLEAN :
          session' = IF ok
                     THEN Rerun([session EXCEPT
                                    !.user = Member,
                                    !.expanded = @ \cup session.auth_target_idx,
                                    !.auth_target_idx = {},
                                    !.show_auth_modal = FALSE])
                     ELSE session
    /\ UiUnchanged

UiNext ==
    \/ Navigate
    \/ NewSearch
    \/ LoginToOpen
    \/ SeeMore
    \/ Hide
    \/ InlineSignIn
    \/ InlineCancel
    \/ SidebarSignIn
    \/ Logout
    \/ OpenDetails
    \/ ModalSignIn

UiSpec == UiInit /\ [][UiNext]_vars

(***************************************************************************)
(* search_web (app.py): the queries it issues                              *)
(***************************************************************************)
MaxResults == 2

\* the query terms before the location (app.py:228-237)
BaseParts == <<"topic">>

\* what the search service does with a query: it raises, or it answers with
\* organic results, some of them without a link
NoLink == [title |-> "t", link |-> ""]
Hit(l) == [title |-> "t", link |-> l]
Answers ==
    {[raises |-> TRUE, organic |-> <<>>]}
    \cup {[raises |-> FALSE, organic |-> o] :
             o \in {<<>>, <<NoLink>>, <<Hit("a")>>, <<NoLink, Hit("b")>>, <<Hit("a"), Hit("b")>>}}

HasLink(r) == r.link # ""

\* _run_serpapi_query (app.py:208): the results with a link among the first
\* max_results, or a raise
_run_serpapi_query(key, answer, max_results) ==
    IF ~key \/ answer.raises
    THEN [raised |-> TRUE, res |-> <<>>]
    ELSE [raised |-> FALSE,
          res |-> SelectSeq(SubSeq(answer.organic, 1,
                                   IF Len(answer.organic) < max_results
                                   THEN Len(answer.organic) ELSE max_results), HasLink)]

SearchInit ==
    /\ html = "doc" /\ url = PageUrl /\ PipeInit /\ FnIdle
    /\ iso = IsoIdle /\ quote = QuoteIdle /\ DbInit
    /\ ldcall = LdIdle /\ session = SessionInit
    /\ search \in {[pc |-> "call", key |-> k, country |-> c, region |-> r, max_results |-> n] :
                       k \in BOOLEAN, c \in {"Any", "Australia"}, r \in {"Any", "Sydney"},
                       n \in 1..MaxResults}

SearchUnchanged == UNCHANGED <<pipeVars, fnVars, iso, quote, dbVars, ldcall, session>>

\* app.py:224-243: without a key the call returns at once; with one it lists
\* the queries to try
SearchStart ==
    /\ search.pc = "call"
    /\ search' =
          IF ~search.key
          THEN [pc |-> "returned", key |-> search.key, country |-> search.country,
                region |-> search.region, max_results |-> search.max_results,
                tries |-> <<>>, issued |-> <<>>, result |-> <<>>]
          ELSE [pc |-> "loop", key |-> search.key, country |-> search.country,
                region |-> search.region, max_results |-> search.max_results,
                tries |-> (IF search.country # "Any" /\ search.region # "Any"
                           THEN <<BaseParts \o <<search.country, search.region>>>> ELSE <<>>)
                          \o (IF search.country # "Any"
                              THEN <<BaseParts \o <<search.country>>>> ELSE <<>>)
                          \o <<BaseParts>>,
                issued |-> <<>>, result |-> <<>>]
    /\ SearchUnchanged

\* the loop body if the first query that raises ended the search
RunQuery_RaiseEnds ==
    /\ search.pc = "loop" /\ search.tries # <<>>
    /\ \E answer \in Answers :
          \E got \in {_run_serpapi_query(search.key, answer, search.max_results)} :
              search' = [search EXCEPT
                            !.issued = Append(@, [q |-> Head(search.tries), res |-> got.res,
                                                  raised |-> got.raised]),
                            !.tries = Tail(@),
                            !.pc = IF got.res # <<>> \/ got.raised THEN "returned" ELSE "loop",
                            !.result = got.res]
    /\ SearchUnchanged

\* app.py:245-253: one turn of the loop: the next query is issued, a raise
\* counts as no results, and results end the call
RunQuery ==
    /\ search.pc = "loop" /\ search.tries # <<>>
    /\ \E answer \in Answers :
          \E got \in {_run_serpapi_query(search.key, answer, search.max_results)} :
              search' = [search EXCEPT
                            !.issued = Append(@, [q |-> Head(search.tries), res |-> got.res,
                                                  raised |-> got.raised]),
                            !.tries = Tail(@),
                            !.pc = IF got.res # <<>> THEN "returned" ELSE "loop",
                            !.result = got.res]
    /\ SearchUnchanged

\* app.py:254: every query was tried
SearchExhausted ==
    /\ search.pc = "loop" /\ search.tries = <<>>
    /\ search' = [search EXCEPT !.pc = "returned", !.result = <<>>]
    /\ SearchUnchanged

SearchNext == SearchStart \/ RunQuery \/ SearchExhausted

SearchSpec == SearchInit /\ [][SearchNext]_vars

(***************************************************************************)
(* The programs table (database.py) and save_program_rows                  *)
(***************************************************************************)
MaxSaves == 2
MaxBatch == 2

\* a value sqlite3 cannot bind to a parameter, such as a list
Unbindable == <<"<list>">>

\* urlparse(u).netloc
Netloc(u) ==
    IF HasNetloc(u)
    THEN (CHOOSE one \in {SubSeq(nl, 3, Len(nl)) : nl \in {Before(AfterScheme(u), 3, {"/", "#", "?"})}} : TRUE)
    ELSE <<>>
\* database.py:17
_domain_of(u) == Lower(Or(Netloc(u), u))

\* UNIQUE(url, title) (database.py:64): two rows collide when both columns
\* are equal; a NULL is equal to nothing, another NULL included
Collides(stored, p) ==
    /\ stored.url # None /\ p.url # None /\ stored.url = p.url
    /\ stored.title # None /\ p.title # None /\ stored.title = p.title

\* INSERT OR IGNORE INTO programs
InsertOrIgnore(table, p) ==
    IF \E i \in 1..Len(table) : Collides(table[i], p) THEN table ELSE Append(table, p)

\* the save if a failing row ended the loop and the rows before it were committed
save_program_rows_NoRollback(db, batch) ==
    LET st[i \in 0..Len(batch)] ==
            IF i = 0 THEN [programs |-> db.programs, sources |-> db.sources, raised |-> FALSE]
            ELSE (CHOOSE one \in {
                    IF prev.raised \/ ~Truthy(p.url) THEN prev
                    ELSE IF Unbindable \in {p.title, p.description}
                         THEN [programs |-> prev.programs,
                               sources |-> prev.sources \cup {_domain_of(p.url)}, raised |-> TRUE]
                    ELSE [programs |-> InsertOrIgnore(prev.programs,
                                          [source |-> _domain_of(p.url), url |-> p.url,
                                           title |-> p.title, description |-> p.description]),
                          sources |-> prev.sources \cup {_domain_of(p.url)},
                          raised |-> FALSE] :
                    prev \in {st[i-1]}, p \in {batch[i]}} : TRUE)
    IN  st[Len(batch)]

\* save_program_rows (database.py:127) on the tables db: the tables after the
\* call and whether it raised; a raise rolls the whole batch back
save_program_rows(db, batch) ==
    LET st[i \in 0..Len(batch)] ==
            IF i = 0 THEN [programs |-> db.programs, sources |-> db.sources, raised |-> FALSE]
            ELSE (CHOOSE one \in {
                    IF prev.raised \/ ~Truthy(p.url) THEN prev
                    ELSE IF Unbindable \in {p.title, p.description}
                         THEN [programs |-> db.programs, sources |-> db.sources, raised |-> TRUE]
                    ELSE [programs |-> InsertOrIgnore(prev.programs,
                                          [source |-> _domain_of(p.url), url |-> p.url,
                                           title |-> p.title, description |-> p.description]),
                          sources |-> prev.sources \cup {_domain_of(p.url)},
                          raised |-> FALSE] :
                    prev \in {st[i-1]}, p \in {batch[i]}} : TRUE)
    IN  st[Len(batch)]

\* the rows handed to a save: url, title and description, each possibly missing
UrlA == <<"h","t","t","p",":","/","/","x","/","a">>
UrlB == <<"h","t","t","p",":","/","/","X","/","b">>
DbRows ==
    {[url |-> u, title |-> ti, description |-> de] :
        u \in {None, UrlA, UrlB}, ti \in {None, <<"T">>}, de \in {<<"o","n","e">>, <<"t","w","o">>}}
    \cup {[url |-> u, title |-> <<"T">>, description |-> Unbindable] : u \in {None, UrlA}}
Batches == UNION {[1..n -> DbRows] : n \in 0..MaxBatch}

DbStart ==
    /\ html = "doc" /\ url = PageUrl /\ PipeInit /\ FnIdle
    /\ iso = IsoIdle /\ quote = QuoteIdle /\ AppIdle
    /\ DbInit

SaveProgramRows ==
    /\ saves < MaxSaves
    /\ \E batch \in Batches :
          \E res \in {save_program_rows([programs |-> programs, sources |-> sources], batch)} :
              /\ programs' = res.programs
              /\ sources' = res.sources
              /\ dberr' = IF res.raised THEN "raised" ELSE "none"
              /\ lastsave' = batch
    /\ saves' = saves + 1
    /\ UNCHANGED <<pipeVars, fnVars, iso, quote, appVars>>

\* save_result (database.py:208): one row, its title defaulted to "Program"
SaveResult ==
    /\ saves < MaxSaves
    /\ \E p \in DbRows :
          \E one \in {<<[url |-> p.url, title |-> Or(p.title, <<"P","r","o","g","r","a","m">>),
                          description |-> Or(p.description, <<>>)]>>} :
          \E res \in {save_program_rows([programs |-> programs, sources |-> sources], one)} :
              /\ programs' = res.programs
              /\ sources' = res.sources
              /\ dberr' = IF res.raised THEN "raised" ELSE "none"
              /\ lastsave' = one
    /\ saves' = saves + 1
    /\ UNCHANGED <<pipeVars, fnVars, iso, quote, appVars>>

DbNext == SaveProgramRows \/ SaveResult

DbSpec == DbStart /\ [][DbNext]_vars

(***************************************************************************)
(* Properties of extract_programs                                          *)
(***************************************************************************)
Returned == pc = "done"

\* the candidates after normalisation and deduplication, before the cut
Deduped == _dedupe(Normalize(rows, url))

\* C1: extract_programs never raises: whatever the page holds, the call ends
\* by returning a list, never by an exception that escapes it.
C1_NeverRaises == pc # "raised" /\ err = "none"

\* C2: the list returned by extract_programs has at most 30 records, however
\* many candidates the extractors produced.
C2_AtMostCap == Returned => Len(out) <= Cap

\* a call that returned after more than 30 distinct candidates
C2_Witness == Returned /\ Len(Deduped) > Cap /\ Len(out) = Cap

\* the key the specification names: (lower-cased trimmed title, lower-cased trimmed url)
SpecKey(r) == <<Lower(Strip(r.title)), Lower(Strip(r.url))>>

\* C3: no two records of the returned list have the same deduplication key
\* (lower-cased trimmed title, lower-cased trimmed url).
C3_UniqueKeys ==
    Returned => Cardinality({SpecKey(out[i]) : i \in 1..Len(out)}) = Len(out)

\* a call that returned after two candidates that differ only in letter case
\* or whitespace met
C3_Witness ==
    /\ Returned /\ out # <<>>
    /\ \E i, j \in 1..Len(rows) :
          /\ i < j /\ rows[i].title # rows[j].title
          /\ SpecKey(NormRow(rows[i], url)) = SpecKey(NormRow(rows[j], url))

\* C4: every record of the returned list has its mode in {Online, In-person,
\* Unknown}; raw mode text without a keyword becomes Unknown.
C4_ModeNormalized ==
    Returned => \A i \in 1..Len(out) : out[i].mode \in {M_Online, M_InPerson, M_Unknown}

\* C5: every record of the returned list has a currency that is unset or one
\* of the canonical codes USD, AUD, GBP, EUR, INR.
C5_CurrencyCanonical ==
    Returned => \A i \in 1..Len(out) : out[i].currency \in CanonicalCodes \cup {None}

\* C6: the type classifier gives Seminar to a text with a Seminar and a Video
\* keyword, Video to a text with a Video and a Course keyword and no Seminar
\* keyword, and the extractor's and the app module's classifiers agree.
C6_SeminarFirst ==
    fpc = "classified" =>
        LET t == Lower(arg)
        IN  /\ ContainsAny(t, ExtSeminarWords) /\ ContainsAny(t, ExtVideoWords)
                => labels.extractor = T_Seminar
            /\ /\ ContainsAny(t, ExtVideoWords) /\ ContainsAny(t, ExtCourseWords)
               /\ ~ContainsAny(t, ExtSeminarWords)
                => labels.extractor = T_Video
            /\ labels.extractor = labels.app

\* C7: for "100 to 150 USD" and for "$100–150" the first pair of the price
\* matcher is the lower bound 100.0 with currency USD.
C7_RangeLowerBoundUsd ==
    fpc = "priced" /\ arg \in {<<"1","0","0"," ","t","o"," ","1","5","0"," ","U","S","D">>, <<"$","1","0","0","<endash>","1","5","0">>}
        => pairs # <<>> /\ pairs[1] = [amount |-> 10000, currency |-> USD]

\* C8: given an absolute page URL, every record of the returned list has an
\* absolute url.
C8_AbsoluteUrls ==
    Returned /\ HasNetloc(url) => \A i \in 1..Len(out) : HasNetloc(out[i].url)

\* C9: given a non-empty page URL, every record of the returned list has a
\* non-empty title and a non-empty url.
C9_TitleAndUrl ==
    Returned /\ url # <<>> =>
        \A i \in 1..Len(out) : Truthy(out[i].title) /\ Truthy(out[i].url)

\* a call that returned a record whose candidate had no title
C9_Witness ==
    /\ Returned /\ url # <<>>
    /\ \E i \in 1..Len(out) : out[i].title = Placeholder
    /\ \E k \in 1..Len(rows) : ~Truthy(rows[k].title)

\* a JSON-LD object of a course or event type that has a name
NamedCourseOrEvent(o) ==
    /\ ~TypeRaises(o)
    /\ Contains(typ(o), <<"c","o","u","r","s","e">>) \/ Contains(typ(o), <<"e","v","e","n","t">>)
    /\ Truthy(_coerce_str(o.name))

Denylisted(o) == ContainsAny(typ(o), Denylist)

FreeOnlineCourse == <<"f","r","e","e"," ","o","n","l","i","n","e"," ","c","o","u","r","s","e">>

\* the page has no script block, no microdata element and no list-like element
PlainPage == html = "doc" /\ nin = 0

\* a title or a meta description that mentions "free online course"
Mentions(x) == Contains(Lower(Or(x, <<>>)), FreeOnlineCourse)

\* exactly one record, Online, a Course, at the page URL
OneOnlineCourse ==
    /\ Len(out) = 1
    /\ out[1].mode = M_Online /\ out[1].type = T_Course /\ out[1].url = url

\* C11 as stated: for a page with no structured data, no microdata and no
\* list-like element whose title or meta description, either one alone,
\* mentions "free online course", the call returns exactly one record, with
\* mode Online, type Course and the page URL.
C11_FallbackRecord ==
    Returned /\ PlainPage =>
        /\ meta # <<>>
        /\ Mentions(meta[1].title) \/ Mentions(meta[1].og_desc) => OneOnlineCourse

\* C11 as amended: the same result when the visible text of the page, the
\* document title and the body text, mentions "free online course" and holds
\* no Video and no Seminar keyword; the content of a meta tag is not visible
\* text.
C11_FallbackFromVisibleText ==
    Returned /\ PlainPage =>
        /\ meta # <<>>
        /\ \A t \in {Lower(JoinSp(Or(meta[1].title, <<>>), meta[1].body))} :
              /\ Contains(t, FreeOnlineCourse)
              /\ ~ContainsAny(t, ExtVideoWords \cup ExtSeminarWords)
              => OneOnlineCourse

\* a call that returned the fallback record of a page whose title mentions
\* "free online course"
C11_Witness ==
    /\ Returned /\ PlainPage /\ meta # <<>>
    /\ Mentions(meta[1].title) /\ meta[1].og_desc = None
    /\ OneOnlineCourse /\ out[1].by = "fallback"

(***************************************************************************)
(* C12, C13: _to_iso                                                       *)
(***************************************************************************)
IsoReturned == iso.pc = "returned"
ParsedPast == IsoReturned /\ iso.dt # NoDate /\ DateLess(iso.dt.date, iso.now.date)
HalfDays(a) == 2 * Ordinal(a.date) + a.tod
\* the reading lies at or after the instant and less than 400 days after it
WithinFollowing(a, b) == (HalfDays(a) - HalfDays(b)) \in 0..(2 * ReinterpretWindow - 1)

\* C12: for a text of the form YYYY-MM-DD, _to_iso returns the text itself at
\* every instant, and makes no attempt to read it as a date of next year.
C12_IsoTextUnchanged ==
    IsoReturned /\ IsIsoText(iso.d) => iso.ret = iso.d /\ ~iso.tried

C14_PriceNonNegative ==
    Returned => \A i \in 1..Len(out) : out[i].price = NoPrice \/ (out[i].price.k = "num" /\ out[i].price.v >= 0)

(***************************************************************************)
(* C15: the empty page                                                     *)
(***************************************************************************)
\* C15: called with an empty HTML string, extract_programs returns the empty
\* list for every url: no extractor runs (nothing is read, no row is
\* gathered) and no exception escapes.
C15_EmptyHtml ==
    html = "empty" =>
        /\ pc \in {"start", "done"}
        /\ rows = <<>> /\ seen = <<>> /\ nin = 0 /\ nlist = 0 /\ meta = <<>>
        /\ out = <<>> /\ err = "none"

\* C15 witness: the call on an empty page has returned
C15_Witness == html = "empty" /\ Returned /\ out = <<>> /\ nin = 0

(***************************************************************************)
(* C16: the programs table                                                 *)
(***************************************************************************)
\* C16: whatever rows are saved, rows with a missing title included, the
\* programs table never holds two rows with the same url and the same title.
C16_UniqueUrlTitle ==
    \A i \in 1..Len(programs) : \A j \in 1..Len(programs) :
        i # j => <<programs[i].url, programs[i].title>> # <<programs[j].url, programs[j].title>>

(***************************************************************************)
(* C17: the lowest offer                                                   *)
(***************************************************************************)
\* the offers whose price is present and parses
Priced(o) == {i \in 1..Len(o) : o[i].price # None /\ float(o[i].price).k # "bad"}
FloatEq(a, b) == a.k = "num" /\ b.k = "num" /\ a.v = b.v
CurrencyOf(it) == IF it.priceCurrency = NonStr THEN None ELSE _norm_currency(it.priceCurrency)

\* C17: the price returned for a list of offers is the least of the prices
\* that parse, the currency is the normalized currency of the first offer at
\* that price, and only offers with no price or an unparseable price are
\* passed over (without any priced offer the price is unset).
C17_LowestOffer ==
    quote.pc = "returned" =>
        \A o \in {quote.offers} :
            IF Priced(o) = {} THEN quote.price = NoPrice
            ELSE \E i \in Priced(o) :
                    /\ quote.price = float(o[i].price)
                    /\ quote.currency = CurrencyOf(o[i])
                    /\ \A j \in Priced(o) : ~FloatLess(float(o[j].price), float(o[i].price))
                    /\ \A j \in Priced(o) : j < i => ~FloatEq(float(o[j].price), float(o[i].price))

(***************************************************************************)
(* C18: the list extractor                                                 *)
(***************************************************************************)
StructuredBy == {"jsonld", "micro"}
StructuredCount(rs) == Cardinality({i \in 1..Len(rs) : rs[i].by \in StructuredBy})
\* no record of the list extractor stands before a structured record
ListsLast(rs) ==
    \A ls \in {{i \in 1..Len(rs) : rs[i].by = "list"}} :
        \A ss \in {{j \in 1..Len(rs) : rs[j].by \in StructuredBy}} :
            \A i \in ls : \A j \in ss : j < i

\* C18: when the structured extractors are done, the list extractor runs if
\* and only if they gathered fewer than 5 raw rows; its rows are added only
\* while it runs, after the structured ones, and no list record stands before
\* a structured record among the rows or in the list returned.
C18_ListGating ==
    [][/\ (pc = "micro" /\ pc' # "micro") =>
              (pc' = "lists" <=> StructuredCount(rows) < MinStructured)
       /\ (Len(rows') > Len(rows) /\ rows'[Len(rows')].by = "list") => pc = "lists"
       /\ ListsLast(rows')
       /\ pc' = "done" => ListsLast(out')]_vars

\* C18 witness: a list returned with a structured record and, after it, a
\* record of the list extractor
C18_Witness ==
    /\ Returned /\ StructuredCount(rows) < MinStructured
    /\ \E i \in 1..Len(out) : \E j \in 1..Len(out) :
          i < j /\ out[i].by \in StructuredBy /\ out[j].by = "list"

(***************************************************************************)
(* C19: the fallback extractor                                             *)
(***************************************************************************)
HasFallback(rs) == \E i \in 1..Len(rs) : rs[i].by = "fallback"

\* C19: the fallback extractor runs if and only if the extractors before it
\* gathered no row at all; it adds at most one row; and a list returned that
\* holds a fallback record holds that record alone.
C19_FallbackGating ==
    [][/\ (pc = "micro" /\ pc' \notin {"micro", "lists"}) => (pc' # "fallback" /\ rows # <<>>)
       /\ (pc = "lists" /\ pc' # "lists") => (pc' = "fallback" <=> rows = <<>>)
       /\ pc = "fallback" => (rows = <<>> /\ Len(rows') <= 1)
       /\ HasFallback(rows') => (pc = "fallback" \/ HasFallback(rows))
       /\ (pc' = "done" /\ HasFallback(out')) => Len(out') = 1]_vars

\* C19 witness: the fallback ran and its record is the list returned
C19_Witness ==
    /\ Returned /\ meta # <<>>
    /\ Len(rows) = 1 /\ rows[1].by = "fallback"
    /\ Len(out) = 1 /\ out[1].by = "fallback"

(***************************************************************************)
(* C20: deduplication, then the cut                                        *)
(***************************************************************************)
\* the positions of the keys that are the first of their kind
FirstSeen(keys) == {i \in 1..Len(keys) : \A j \in 1..(i - 1) : keys[j] # keys[i]}
\* the candidates: the rows gathered, normalised
Candidates == Normalize(rows, url) \o <<>>
CandidateKeys == [i \in 1..Len(rows) |-> SpecKey(NormRow(rows[i], url))] \o <<>>

\* C20: the list returned is the first min(30, k) of the k candidates that are
\* the first of their key, in the order in which they were met: duplicates
\* are dropped before the cut and take no place under the cap.
C20_FirstSeenThenCut ==
    Returned =>
        \A cand \in {Candidates} :
            \A firsts \in {FirstSeen([i \in 1..Len(cand) |-> SpecKey(cand[i])] \o <<>>)} :
                /\ Len(out) = (IF Cardinality(firsts) > Cap THEN Cap ELSE Cardinality(firsts))
                /\ \A i \in firsts :
                      \A n \in {Cardinality({j \in firsts : j <= i})} :
                          n <= Cap => out[n] = cand[i]

\* C20 witness: a call that met duplicates among more than 30 distinct keys
C20_Witness ==
    /\ Returned /\ Len(out) = Cap
    /\ \A k \in {Cardinality(FirstSeen(CandidateKeys))} : Cap < k /\ k < Len(rows)

(***************************************************************************)
(* C21: script blocks that are not valid JSON                              *)
(***************************************************************************)
\* C21: a script block that is not valid JSON is passed over: reading it
\* adds no object and no row, raises nothing and leaves the loop running;
\* and the rows gathered from the script blocks are those of the objects of
\* the valid blocks, in order, whatever invalid blocks stand among them.
C21_InvalidBlockSkipped ==
    [][/\ (Len(tags') > Len(tags) /\ ~tags'[Len(tags')]) =>
              (rows' = rows /\ seen' = seen /\ pc' = "jsonld" /\ err' = "none")
       /\ (pc' \in {"jsonld", "micro"} /\ nin' = Len(tags')) =>
              rows' = BlockRows(seen', url).rows]_vars

\* C21 witness: the rows of a valid block that follows an invalid one
C21_Witness ==
    /\ pc = "micro" /\ tags = <<FALSE, TRUE>>
    /\ rows # <<>> /\ rows = BlockRows(seen, url).rows

(***************************************************************************)
(* C22: the denylist                                                       *)
(***************************************************************************)
\* C22: for an object whose @type, lower-cased and with list values joined,
\* holds one of the names jobposting, person, organization, faqpage, article,
\* the JSON-LD extractor yields no row, also when the type names Course or
\* Event as well.
C22_DenylistFirst ==
    ldcall.pc = "returned" /\ Denylisted(ldcall.obj) => ldcall.rows = <<>>

\* C22 witness: a named and described object typed Course and a denylisted
\* type, for which nothing was yielded and nothing raised
C22_Witness ==
    /\ ldcall.pc = "returned" /\ ~ldcall.raised
    /\ Denylisted(ldcall.obj) /\ Contains(typ(ldcall.obj), <<"c","o","u","r","s","e">>)
    /\ Truthy(ldcall.obj.name) /\ Truthy(ldcall.obj.description)
    /\ ldcall.rows = <<>>

(***************************************************************************)
(* C23: expanded cards                                                     *)
(***************************************************************************)
\* C23: in every state the buttons of the app can reach, a card is expanded
\* only while the session holds a user.
C23_ExpandedOnlyLoggedIn ==
    session.expanded # {} => session.user # None

(***************************************************************************)
(* C24: a save is all or nothing                                           *)
(***************************************************************************)
\* the rows of a batch that reach the INSERT: those with a non-empty url
Insertable(b) == {i \in 1..Len(b) : Truthy(b[i].url)}
\* the (url, title) pairs a table holds
StoredKeys(table) == {<<table[i].url, table[i].title>> : i \in 1..Len(table)}

\* C24: a save that raises leaves the programs and sources tables as they
\* were before the call; a save that returns keeps every stored row, stores
\* every row of its batch that has a non-empty url (a row whose url and
\* title are stored already is that stored row), adds the source of each such
\* row and nothing else, and adds nothing for the rows with an empty url.
C24_AllOrNothing ==
    [][saves' = saves + 1 =>
          /\ dberr' = "raised" => programs' = programs /\ sources' = sources
          /\ dberr' = "raised" <=>
                 \E i \in Insertable(lastsave') : Unbindable \in {lastsave'[i].title, lastsave'[i].description}
          /\ dberr' = "none" =>
                 \A old \in {StoredKeys(programs)} : \A new \in {StoredKeys(programs')} :
                     /\ SubSeq(programs', 1, Len(programs)) = programs
                     /\ new = old \cup {<<lastsave'[i].url, lastsave'[i].title>> : i \in Insertable(lastsave')}
                     /\ Len(programs') - Len(programs) <= Cardinality(Insertable(lastsave'))
                     /\ sources' = sources \cup {_domain_of(lastsave'[i].url) : i \in Insertable(lastsave')}]_vars

\* a save of a good row and then a row that cannot be bound raised and left
\* a table that held a row as it was
C24_Witness ==
    /\ dberr = "raised" /\ Len(lastsave) = 2
    /\ Truthy(lastsave[1].url) /\ Unbindable \notin {lastsave[1].title, lastsave[1].description}
    /\ <<lastsave[1].url, lastsave[1].title>> \notin StoredKeys(programs)
    /\ Len(programs) = 1

(***************************************************************************)
(* C25: the order of the queries of search_web                             *)
(***************************************************************************)
\* the location variants a search is to try, in order
Relaxations(c, r) ==
    IF c # "Any" /\ r # "Any" THEN <<BaseParts \o <<c, r>>, BaseParts \o <<c>>, BaseParts>>
    ELSE IF c # "Any" THEN <<BaseParts \o <<c>>, BaseParts>>
    ELSE <<BaseParts>>

\* the queries issued so far are the first variants in order, none but the
\* last had results, and results end the call with those results
InOrderUntilResults ==
    \A todo \in {Relaxations(search.country, search.region)} :
        /\ Len(search.issued) <= Len(todo)
        /\ \A k \in 1..Len(search.issued) :
              /\ search.issued[k].q = todo[k]
              /\ k < Len(search.issued) => search.issued[k].res = <<>>
              /\ search.issued[k].res # <<>> =>
                     search.pc = "returned" /\ search.result = search.issued[k].res
        /\ search.pc = "returned" /\ search.result # <<>> =>
              /\ search.issued # <<>>
              /\ search.result = search.issued[Len(search.issued)].res

\* every variant was tried and had no results
AllTriedAndEmpty ==
    /\ Len(search.issued) = Len(Relaxations(search.country, search.region))
    /\ \A k \in 1..Len(search.issued) : search.issued[k].res = <<>>

\* C25 as stated: the queries go out in the fixed order, the first results
\* are returned and end the call, a raise counts as no results, and an empty
\* list is returned only when every variant was tried and had no results.
C25_RelaxInOrder ==
    search.pc \in {"loop", "returned"} =>
        /\ InOrderUntilResults
        /\ search.pc = "returned" /\ search.result = <<>> => AllTriedAndEmpty

\* C25: the queries go out in the fixed order, the first results are
\* returned and end the call, a raise counts as no results, and an empty
\* list is returned only when every variant was tried and had no results or
\* when no API key is configured, in which case no query is issued.
C25_RelaxInOrderOrNoKey ==
    search.pc \in {"loop", "returned"} =>
        /\ InOrderUntilResults
        /\ search.pc = "returned" /\ search.result = <<>> =>
              \/ AllTriedAndEmpty
              \/ ~search.key /\ search.issued = <<>>
        /\ ~search.key => search.pc = "returned" /\ search.result = <<>> /\ search.issued = <<>>

\* with a country and a region, the first query raised, the second had no
\* results and the third, the topic alone, had the results returned
C25_Witness ==
    /\ search.pc = "returned" /\ search.result # <<>>
    /\ Len(search.issued) = 3
    /\ search.issued[1].raised /\ ~search.issued[2].raised
    /\ search.issued[3].q = BaseParts

====
